---- MODULE Spec2Model ----
(***************************************************************************)
(* Verification model of jt828/go-grpc-template: the circuit breaker, the  *)
(* retry executor, the idempotency gate and the unit of work, the          *)
(* CreateUser composition of the four, the repositories, the error         *)
(* interceptor and the server's health status.                             *)
(*                                                                         *)
(* The specifications of the module:                                       *)
(*   SpecCB     concurrent callers of CircuitBreaker.Execute / State       *)
(*   SpecRetry  callers of one shared RetryExecutor instance               *)
(*   Spec       concurrent CreateUser requests over the transactional store*)
(*   SpecIdem   the idempotency gate over a record store                   *)
(*   SpecSvc    the service operations over a UnitOfWork                   *)
(*   SpecUow    concurrent calls of one UnitOfWork's accessors             *)
(*   SpecRepo   a repository's Get and Insert over breaker, retry executor *)
(*              and table, with cancellation of the caller's context       *)
(*   SpecDb     storage calls under the retry predicate of database.go     *)
(*   SpecIcpt   unary RPCs through ErrorInterceptor                        *)
(*   SpecLedger LedgerRepository.Get and Insert over main.ledgers          *)
(*   SpecTerm   retry calls and service operations under weak fairness     *)
(*   SpecHealth main's health status under signal, ping and shutdown       *)
(***************************************************************************)
EXTENDS Integers, Sequences, FiniteSets, TLC

VARIABLES
    now,            \* wall clock (time.Now()), in ticks
    settings,       \* gobreaker.Settings handed to NewCircuitBreaker
    cb,             \* the breaker: state, generation, counts, expiry
    calls,          \* SpecCB: each caller's current Execute call
    ncalls,         \* SpecCB: Execute calls begun so far
    observed,       \* SpecCB: last value returned by State()
    openedAt,       \* history: time of the last transition to Open (0: never)
    failRun,        \* history: failed completions since the last success
    maxFailRun,     \* history: the longest such run so far
    trialsAdmitted, \* history: operations admitted in this half-open period
    rcfg,           \* the arguments NewRetry was called with
    rt,             \* the state of goRetry.backoff, built once by NewRetry
    rcalls,         \* SpecRetry: each caller's current Execute call
    nrcalls,        \* SpecRetry: Execute calls begun so far
    db,             \* committed rows of main.users and main.idempotency_records
    tx,             \* each request's transaction: status and uncommitted rows
    req,            \* each CreateUser request: position, locals, history
    nextId,         \* the snowflake node's next id
    faults,         \* history: storage faults injected so far
    first,          \* history: per idempotency id, the result committed with it
    irecords,       \* SpecIdem: the records held by the gate's record store
    icalls,         \* SpecIdem: each caller's current call of the gate
    nicalls,        \* SpecIdem: gate calls begun so far
    ops,            \* SpecSvc: each caller's current service operation
    nops,           \* SpecSvc: service operations begun so far
    uw,             \* SpecUow: one UnitOfWork's sync.Once and repository fields
    acc,            \* SpecUow: each thread's current accessor call
    rp,             \* SpecRepo: each caller's current repository Get
    nrp,            \* SpecRepo: repository Gets begun so far
    drt,            \* SpecDb: the backoff of the database retry executor
    dcalls,         \* SpecDb: each caller's current Execute on it
    ndcalls,        \* SpecDb: calls begun so far
    hcalls,         \* SpecIcpt: each caller's current RPC through ErrorInterceptor
    nhcalls,        \* SpecIcpt: RPCs begun so far
    errorCalls,     \* SpecIcpt: log.Error calls made so far
    ledgers,        \* SpecLedger: the rows of main.ledgers
    lget,           \* SpecLedger: the last LedgerRepository.Get call
    lins,           \* SpecLedger: the error of the last LedgerRepository.Insert
    hstatus,        \* SpecHealth: the health server's status of service ""
    hmain,          \* SpecHealth: where main is
    hping,          \* SpecHealth: the ping goroutine: where it is, its last ping
    hctxDone,       \* SpecHealth: the root context is cancelled
    hdbUp,          \* SpecHealth: the database answers pings
    hticks,         \* SpecHealth: ticks of the ticker taken so far
    hshut           \* history: main has set NOT_SERVING on shutdown

cbVars == <<now, settings, cb, calls, ncalls, observed,
            openedAt, failRun, maxFailRun, trialsAdmitted>>

retryVars == <<rcfg, rt, rcalls, nrcalls>>

svcVars == <<db, tx, req, nextId, faults, first>>

idemVars == <<irecords, icalls, nicalls>>
opsVars == <<ops, nops>>
uowVars == <<uw, acc>>
repoVars == <<rp, nrp>>
dbErrVars == <<drt, dcalls, ndcalls>>
icptVars == <<hcalls, nhcalls, errorCalls>>
ledgerVars == <<ledgers, lget, lins>>
healthVars == <<hstatus, hmain, hping, hctxDone, hdbUp, hticks, hshut>>

\* What the actions of each specification leave alone.
outsideCB == <<retryVars, svcVars, idemVars, opsVars, uowVars, repoVars, dbErrVars,
               icptVars, ledgerVars, healthVars>>
outsideRetry == <<cbVars, svcVars, idemVars, opsVars, uowVars, repoVars, dbErrVars,
                  icptVars, ledgerVars, healthVars>>
outsideSvc == <<settings, calls, ncalls, observed, openedAt, failRun, maxFailRun,
                trialsAdmitted, rcfg, rcalls, nrcalls, idemVars, opsVars, uowVars,
                repoVars, dbErrVars, icptVars, ledgerVars,
                healthVars>>
outsideIdem == <<cbVars, retryVars, svcVars, opsVars, uowVars, repoVars, dbErrVars,
                 icptVars, ledgerVars, healthVars>>
outsideOps == <<cbVars, retryVars, svcVars, idemVars, uowVars, repoVars, dbErrVars,
                icptVars, ledgerVars, healthVars>>
outsideUow == <<cbVars, retryVars, svcVars, idemVars, opsVars, repoVars, dbErrVars,
                icptVars, ledgerVars, healthVars>>
outsideRepo == <<now, settings, calls, ncalls, observed, openedAt, failRun, maxFailRun,
                 trialsAdmitted, rcfg, rcalls, nrcalls, svcVars, idemVars, opsVars,
                 uowVars, dbErrVars, icptVars, ledgerVars,
                 healthVars>>
outsideDb == <<cbVars, retryVars, svcVars, idemVars, opsVars, uowVars, repoVars,
               icptVars, ledgerVars, healthVars>>
outsideIcpt == <<cbVars, retryVars, svcVars, idemVars, opsVars, uowVars, repoVars,
                 dbErrVars, ledgerVars, healthVars>>
outsideLedger == <<cbVars, retryVars, svcVars, idemVars, opsVars, uowVars, repoVars,
                   dbErrVars, icptVars, healthVars>>
outsideHealth == <<cbVars, retryVars, svcVars, idemVars, opsVars, uowVars, repoVars,
                   dbErrVars, icptVars, ledgerVars>>

vars == <<cbVars, retryVars, svcVars, idemVars, opsVars, uowVars, repoVars,
          dbErrVars, icptVars, ledgerVars, healthVars>>

\* ------------------------------------------------------------------ bounds
NumCallers == 2
MaxCalls == 4
MaxTime == 5
MaxThreshold == 2
MaxTimeout == 2
MaxRetriesArg == 2
MaxRetryCalls == 3
NumRequests == 3
NumKeys == 2
MaxFaults == 1
MaxIdemCalls == 3
MaxOps == 3
MaxAccessorCalls == 4
MaxRepoCalls == 3
MaxDbCalls == 3

Callers == 1..NumCallers
Requests == 1..NumRequests
Keys == 1..NumKeys

\* ------------------------------------------------------------- the breaker
Nil == "nil"
NoErr == "nil"
ErrOpenState == "circuit breaker is open"
ErrTooManyRequests == "too many requests"
BreakerErrors == {ErrOpenState, ErrTooManyRequests}

\* What a wrapped operation can return.
OpValues == {"hello", "world"}
OpErrors == {"operation failed"}
OpResults == {[val |-> v, err |-> NoErr] : v \in OpValues}
                \cup {[val |-> Nil, err |-> e] : e \in OpErrors}

\* Settings{Name: ...} leaves MaxRequests 0, which gobreaker reads as 1.
MaxRequests == 1

ZeroCounts == [Requests |-> 0, TotalSuccesses |-> 0, TotalFailures |-> 0,
               ConsecutiveSuccesses |-> 0, ConsecutiveFailures |-> 0]

\* ReadyToTrip: counts.ConsecutiveFailures >= threshold (the tests' predicates;
\* gobreaker's default, ConsecutiveFailures > 5, is threshold 6).
readyToTripEarly(counts, s) == counts.ConsecutiveFailures + 1 >= s.threshold

readyToTrip(counts, s) == counts.ConsecutiveFailures >= s.threshold

\* An IsSuccessful that takes a cancelled context and a uniqueness violation
\* for the caller's business, not the store's.
isSuccessfulForCallerErrors(err) ==
    err \in {NoErr, "context canceled", "23505 unique_violation"}

\* IsSuccessful is left unset: err == nil.
isSuccessful(err) == err = NoErr

toNewGeneration(b, t, s) ==
    [b EXCEPT !.generation = @ + 1,
              !.counts = ZeroCounts,
              !.expiry = IF b.state = "StateOpen" THEN t + s.timeout ELSE 0]

setState(b, st, t, s) ==
    IF b.state = st THEN b ELSE toNewGeneration([b EXCEPT !.state = st], t, s)

\* Interval is never set, so Closed never expires; Open expires lazily.
currentState(b, t, s) ==
    IF b.state = "StateOpen" /\ b.expiry < t
    THEN setState(b, "StateHalfOpen", t, s)
    ELSE b

\* onRequest that counts a call as two requests, as if each of two attempts
\* had entered the breaker
onRequestTwice(b) == [b EXCEPT !.counts.Requests = @ + 2]

onRequest(b) == [b EXCEPT !.counts.Requests = @ + 1]

beforeRequestOffByOne(b, t, s) ==
    LET b1 == currentState(b, t, s) IN
    IF b1.state = "StateOpen"
    THEN [cb |-> b1, generation |-> b1.generation, err |-> ErrOpenState]
    ELSE IF b1.state = "StateHalfOpen" /\ b1.counts.Requests > MaxRequests
    THEN [cb |-> b1, generation |-> b1.generation, err |-> ErrTooManyRequests]
    ELSE [cb |-> onRequest(b1), generation |-> b1.generation, err |-> NoErr]

beforeRequest(b, t, s) ==
    LET b1 == currentState(b, t, s) IN
    IF b1.state = "StateOpen"
    THEN [cb |-> b1, generation |-> b1.generation, err |-> ErrOpenState]
    ELSE IF b1.state = "StateHalfOpen" /\ b1.counts.Requests >= MaxRequests
    THEN [cb |-> b1, generation |-> b1.generation, err |-> ErrTooManyRequests]
    ELSE [cb |-> onRequest(b1), generation |-> b1.generation, err |-> NoErr]

\* countSuccess that leaves the run of failures standing
countSuccessKeepsRun(b) ==
    [b EXCEPT !.counts.TotalSuccesses = @ + 1,
              !.counts.ConsecutiveSuccesses = @ + 1]

countSuccess(b) ==
    [b EXCEPT !.counts.TotalSuccesses = @ + 1,
              !.counts.ConsecutiveSuccesses = @ + 1,
              !.counts.ConsecutiveFailures = 0]


countFailure(b) ==
    [b EXCEPT !.counts.TotalFailures = @ + 1,
              !.counts.ConsecutiveFailures = @ + 1,
              !.counts.ConsecutiveSuccesses = 0]

onSuccess(b, t, s) ==
    IF b.state = "StateClosed" THEN countSuccess(b)
    ELSE IF b.state = "StateHalfOpen"
    THEN LET b1 == countSuccess(b) IN
         IF b1.counts.ConsecutiveSuccesses >= MaxRequests
         THEN setState(b1, "StateClosed", t, s) ELSE b1
    ELSE b

onFailure(b, t, s) ==
    IF b.state = "StateClosed"
    THEN LET b1 == countFailure(b) IN
         IF readyToTrip(b1.counts, s) THEN setState(b1, "StateOpen", t, s) ELSE b1
    ELSE IF b.state = "StateHalfOpen" THEN setState(b, "StateOpen", t, s)
    ELSE b

afterRequest(b, before, success, t, s) ==
    LET b1 == currentState(b, t, s) IN
    IF b1.generation # before THEN b1
    ELSE IF success THEN onSuccess(b1, t, s) ELSE onFailure(b1, t, s)

NewCircuitBreaker(t, s) ==
    toNewGeneration([state |-> "StateClosed", generation |-> 0,
                     counts |-> ZeroCounts, expiry |-> 0], t, s)

StateHalfOpenAsOpen(b, t, s) ==
    LET st == currentState(b, t, s).state IN
    CASE st = "StateClosed" -> "Closed"
      [] st = "StateHalfOpen" -> "Open"
      [] st = "StateOpen" -> "Open"
      [] OTHER -> "Closed"

\* gobreakerCircuitBreaker.State: the mapping to circuitbreaker.State.
State(b, t, s) ==
    LET st == currentState(b, t, s).state IN
    CASE st = "StateClosed" -> "Closed"
      [] st = "StateHalfOpen" -> "HalfOpen"
      [] st = "StateOpen" -> "Open"
      [] OTHER -> "Closed"

\* Execute calling fn without asking the breaker.
ExecuteEnterBypass(b, t, s) == [cb |-> b, generation |-> b.generation, err |-> NoErr]

\* gobreakerCircuitBreaker.Execute, entry: g.cb.Execute admits or rejects.
ExecuteEnter(b, t, s) == beforeRequest(b, t, s)

\* Execute dropping the operation's error.
ExecuteLeaveSwallow(b, before, res, t, s) ==
    [cb |-> afterRequest(b, before, isSuccessful(res.err), t, s),
     ret |-> [res EXCEPT !.err = NoErr]]

\* gobreakerCircuitBreaker.Execute, exit: the outcome is recorded and the
\* operation's own result and error are returned.
ExecuteLeave(b, before, res, t, s) ==
    [cb |-> afterRequest(b, before, isSuccessful(res.err), t, s), ret |-> res]

\* The value Execute returns on a rejection: the zero value and the error.
ExecuteReject(err) == [val |-> Nil, err |-> err]

\* ------------------------------------------------------- the retry executor
ErrCanceled == "context canceled"
ErrTransient == "transient error"
ErrTransient2 == "another transient error"
ErrFatal == "fatal error"
FnErrors == {ErrTransient, ErrFatal}
TransientErrors == {ErrTransient, ErrTransient2}
RetryFnErrors == TransientErrors \cup {ErrFatal}

\* NewRetry: one Backoff, goretry.WithMaxRetries(maxRetries,
\* goretry.NewExponential(cfg.Interval)), is built and kept in goRetry.backoff;
\* its closure holds the count of retries granted and the exponential's step.
NewRetry == [attempt |-> 0, step |-> 0]

\* A backoff without WithMaxRetries: it never stops.
BackoffNextNeverStops(b, max, interval) ==
    [rt |-> b, stop |-> FALSE, wait |-> interval]

\* Backoff.Next of goRetry.backoff: WithMaxRetries stops once `attempt` has
\* reached max and counts a retry otherwise; the exponential doubles per step.
\* Neither count is ever reset, and no count is kept per call of Execute.
BackoffNext(b, max, interval) ==
    IF b.attempt >= max THEN [rt |-> b, stop |-> TRUE, wait |-> 0]
    ELSE [rt |-> [attempt |-> b.attempt + 1, step |-> b.step + 1],
          stop |-> FALSE, wait |-> interval * (2 ^ b.step)]

\* An Execute whose closure hands every error to goretry.Do as retryable.
RetryableAlways(fnName, err) == TRUE

\* goRetry.Execute's closure: an error is handed to goretry.Do as retryable
\* unless retryableFn is set and rejects it.
Retryable(fnName, err) ==
    IF fnName = "nil" THEN TRUE ELSE err \in TransientErrors

\* A loop that invokes fn without looking at the context.
DoLoopTopIgnoresCtx(ctxDone) == "invoke"

\* goretry.Do, top of the loop: a done context ends the call before fn runs.
DoLoopTop(ctxDone) == IF ctxDone THEN "return" ELSE "invoke"

\* goretry.Do waiting for the backoff: select on ctx.Done() and the timer;
\* with the context done either case may be taken.
DoWait(ctxDone) == IF ctxDone THEN {"loop", "return"} ELSE {"loop"}

\* n, fails, sawFatal, ctxAtCall, pcAtCancel and nAtCancel are history.
IdleRetryCall == [pc |-> "idle", ctxDone |-> FALSE, n |-> 0, granted |-> 0,
                  last |-> NoErr, allRetryable |-> TRUE, ret |-> NoErr,
                  wait |-> 0, budgetAtStart |-> 0, fails |-> 0, prev |-> NoErr,
                  sawFatal |-> FALSE, ctxAtCall |-> FALSE,
                  pcAtCancel |-> "none", nAtCancel |-> 0]

\* ------------------------------------------------- store, gate and service
ErrUnique == "23505 unique_violation"
ErrBegin == "begin failed"
ErrCommit == "commit failed"
RequestTypeCreateUser == "CREATE_USER"
\* constant.RequestType is a string type: a second value stands for the type
\* of any other operation put behind the gate.
RequestTypeOther == "OTHER_REQUEST"
RequestTypes == {RequestTypeCreateUser, RequestTypeOther}

\* database.go: NewRetry(3, WithInterval(100ms), WithRetryable(pg codes 40001,
\* 40P01, 08006, 08001, 08004 and net.OpError)); ErrTransient stands for the
\* errors the predicate accepts, every other error is rejected by it.
DbMaxRetries == 3
DbRetryConfig == [maxRetries |-> DbMaxRetries, retryableFn |-> "predicate", interval |-> 1]

\* model.User; the zero value is what newResult() returns, and stands for a
\* nil *model.User where no user is held.
UserFields == {"Id", "Email", "Username", "Password", "CreatedAt", "UpdatedAt"}
ZeroUser == [f \in UserFields |-> 0]
FieldOrder == <<"Id", "Email", "Username", "Password", "CreatedAt", "UpdatedAt">>

\* json.Marshal of a *model.User: the exported fields, in order, by name.
Marshal(u) == [i \in 1..Len(FieldOrder) |-> <<FieldOrder[i], u[FieldOrder[i]]>>]

\* json.Unmarshal(data, result): each member sets the field of its name, the
\* fields the document does not name keep the value result came with.
Unmarshal(data, result) ==
    [f \in DOMAIN result |->
        IF \E i \in 1..Len(data) : data[i][1] = f
        THEN data[CHOOSE i \in 1..Len(data) : data[i][1] = f][2]
        ELSE result[f]]

\* A table without its primary key: no insert is ever refused.
ConflictsUnconstrained(rows, row) == FALSE

\* PRIMARY KEY (id) on main.users and main.idempotency_records.
Conflicts(rows, row) == \E x \in rows : x.Id = row.Id

OpenTx == [status |-> "open", users |-> {}, records |-> {}]
NoTx == [status |-> "none", users |-> {}, records |-> {}]

\* An insert waits while another open transaction holds an uncommitted row
\* with the same primary key.
Blocked(r, table, row) ==
    \E r2 \in Requests \ {r} :
        tx[r2].status = "open" /\ Conflicts(tx[r2][table], row)

\* Create(&entity) through the transaction handle of the first request,
\* whichever request calls.
InsertThroughFirstHandle(r, table, row) ==
    IF Conflicts(db[table] \cup tx[1][table], row)
    THEN [tx |-> tx[1], found |-> FALSE, val |-> ZeroUser, err |-> ErrUnique]
    ELSE [tx |-> [tx[1] EXCEPT ![table] = @ \cup {row}],
          found |-> FALSE, val |-> ZeroUser, err |-> NoErr]

\* Create(&entity) inside the transaction of request r.
Insert(r, table, row) ==
    IF Conflicts(db[table] \cup tx[r][table], row)
    THEN [tx |-> tx[r], found |-> FALSE, val |-> ZeroUser, err |-> ErrUnique]
    ELSE [tx |-> [tx[r] EXCEPT ![table] = @ \cup {row}],
          found |-> FALSE, val |-> ZeroUser, err |-> NoErr]

\* First(&entity, id) inside the transaction of request r: committed rows and
\* its own; a missing row is not an error (notFoundAsError is false).
Get(r, table, id) ==
    LET rows == {x \in db[table] \cup tx[r][table] : x.Id = id} IN
    IF rows = {}
    THEN [tx |-> tx[r], found |-> FALSE, val |-> ZeroUser, err |-> NoErr]
    ELSE [tx |-> tx[r], found |-> TRUE, val |-> CHOOSE x \in rows : TRUE, err |-> NoErr]

\* A CreateUser that treats a failed gate like a successful one.
CreateUserAlwaysCommit(err) == "commit"

\* CreateUser after idempotency.Execute: an error aborts, otherwise commit.
CreateUserAfterGate(err) == IF err # NoErr THEN "abort" ELSE "commit"

\* A gate that runs fn whatever the lookup found.
GateIgnoresRecord(found) == "fn"

\* idempotency.Execute after repo.Get: a record found is replayed.
GateAfterLookup(found) == IF found THEN "replay" ELSE "fn"

\* A gate that goes on to insert the record although fn failed.
GateInsertsAfterFailedFn(err) == "insert"

\* idempotency.Execute after fn: an error is returned, otherwise the result is
\* serialized and the record inserted.
GateAfterFn(err) == IF err # NoErr THEN "return" ELSE "insert"

ErrSyntax == "json.SyntaxError"
ErrUnsupportedType == "json.UnsupportedTypeError"

\* A result json.Marshal rejects: func() {}.
Unserializable == [func |-> "func() {}"]

\* json.Marshal's error: functions are not serializable.
MarshalErr(v) == IF v = Unserializable THEN ErrUnsupportedType ELSE NoErr

\* A document is a sequence of (name, value) members; anything else in it is
\* a syntax error for json.Unmarshal.
UnmarshalErr(data) ==
    IF \A i \in 1..Len(data) : Len(data[i]) = 2 THEN NoErr ELSE ErrSyntax

\* A gate that takes a failed lookup for a miss.
GateGetErrorAsMiss(err) == "continue"

\* idempotency.Execute after repo.Get: an error is returned at once.
GateAfterGet(err) == IF err # NoErr THEN "return" ELSE "continue"

\* A gate that falls back to fn when the cached document is corrupt.
GateCorruptAsMiss(err) == IF err # NoErr THEN "fn" ELSE "result"

\* idempotency.Execute after json.Unmarshal of the cached document.
GateAfterUnmarshal(err) == IF err # NoErr THEN "return" ELSE "result"

\* A gate that inserts a record although the result could not be serialized.
GateInsertsUnserialized(err) == "insert"

\* idempotency.Execute after json.Marshal of fn's result.
GateAfterMarshal(err) == IF err # NoErr THEN "return" ELSE "insert"

\* A gate that returns fn's result although the insert failed.
GateSwallowsInsertError(err) == "result"

\* idempotency.Execute after repo.Insert.
GateAfterInsert(err) == IF err # NoErr THEN "return" ELSE "result"

\* A record built with id and referenceId exchanged.
GateRecordSwapped(id, requestType, referenceId, data, t) ==
    [Id |-> referenceId, RequestType |-> requestType, ReferenceId |-> id,
     ResponseData |-> data, CreatedAt |-> t]

\* The idempotency.Record Execute hands to repo.Insert.
GateRecord(id, requestType, referenceId, data, t) ==
    [Id |-> id, RequestType |-> requestType, ReferenceId |-> referenceId,
     ResponseData |-> data, CreatedAt |-> t]

\* idempotency.Execute from the return of repo.Get to its return or to fn.
GateOnGet(found, rec, err) ==
    IF GateAfterGet(err) = "return"
    THEN [next |-> "return", val |-> ZeroUser, err |-> err, lookup |-> "error"]
    ELSE IF GateAfterLookup(found) = "replay"
    THEN LET uerr == UnmarshalErr(rec.ResponseData) IN
         IF GateAfterUnmarshal(uerr) = "return"
         THEN [next |-> "return", val |-> ZeroUser, err |-> uerr, lookup |-> "corrupt"]
         ELSE IF uerr = NoErr
         THEN [next |-> "return", val |-> Unmarshal(rec.ResponseData, ZeroUser),
               err |-> NoErr, lookup |-> "hit"]
         ELSE [next |-> "fn", val |-> ZeroUser, err |-> NoErr, lookup |-> "corrupt"]
    ELSE [next |-> "fn", val |-> ZeroUser, err |-> NoErr,
          lookup |-> IF err # NoErr THEN "error" ELSE IF found THEN "hit" ELSE "miss"]

\* idempotency.Execute from the return of fn to its return or to repo.Insert.
GateOnFn(v, err) ==
    IF GateAfterFn(err) = "return"
    THEN [next |-> "return", val |-> ZeroUser, err |-> err, data |-> <<>>]
    ELSE LET merr == MarshalErr(v) IN
         IF GateAfterMarshal(merr) = "return"
         THEN [next |-> "return", val |-> ZeroUser, err |-> merr, data |-> <<>>]
         ELSE [next |-> "insert", val |-> v, err |-> NoErr,
               data |-> IF merr = NoErr THEN Marshal(v) ELSE <<>>]

\* idempotency.Execute from the return of repo.Insert to its return.
GateOnInsert(v, err) ==
    IF GateAfterInsert(err) = "return"
    THEN [val |-> ZeroUser, err |-> err]
    ELSE [val |-> v, err |-> NoErr]

IdleReq == [pc |-> "idle", key |-> 0, user |-> ZeroUser, call |-> "none",
            stage |-> "none", gen |-> 0, res |-> [found |-> FALSE, val |-> ZeroUser, err |-> NoErr],
            attempts |-> 0, created |-> ZeroUser, data |-> <<>>,
            ret |-> [val |-> ZeroUser, err |-> NoErr],
            lookup |-> "none", fnCalls |-> 0, fnErr |-> NoErr, recInserts |-> 0,
            atStart |-> {}, failedAtStart |-> {}, rejected |-> FALSE]

\* ------------------------------------------- the gate over a record store
ErrStore == "store error"
ErrFn == "fn failed"
RefIds == {201, 202}

\* What fn returns to the gate for caller c: a result, a result that cannot
\* be serialized, or an error.
ResultOf(c) == [ZeroUser EXCEPT !.Id = 100 + c, !.Email = c]
FnOutcomes(c) ==
    {[val |-> ResultOf(c), err |-> NoErr],
     [val |-> Unserializable, err |-> NoErr],
     [val |-> ZeroUser, err |-> ErrFn]}

\* Records a store may hold before the first call: one written by an earlier
\* Execute, one whose responseData is not a document.
SeedUser == [ZeroUser EXCEPT !.Id = 200, !.Email = 9]
SeedRecord == GateRecord(1, RequestTypeCreateUser, 200, Marshal(SeedUser), 0)
CorruptRecord == GateRecord(1, RequestTypeCreateUser, 200, << <<"not valid json{{{">> >>, 0)
SeedStores == {{}, {SeedRecord}, {CorruptRecord}}

\* A Get that looks among the records of CreateUser only.
StoreGetCreateUserOnly(rows, id) ==
    {[found |-> FALSE, val |-> ZeroUser, err |-> ErrStore]} \cup
    (IF \E x \in rows : x.Id = id /\ x.RequestType = RequestTypeCreateUser
     THEN {[found |-> TRUE, val |-> x, err |-> NoErr] :
               x \in {y \in rows : y.Id = id /\ y.RequestType = RequestTypeCreateUser}}
     ELSE {[found |-> FALSE, val |-> ZeroUser, err |-> NoErr]})

\* RecordRepository.Get(ctx, id): the record, nil, or an error.
StoreGet(rows, id) ==
    {[found |-> FALSE, val |-> ZeroUser, err |-> ErrStore]} \cup
    (IF \E x \in rows : x.Id = id
     THEN {[found |-> TRUE, val |-> x, err |-> NoErr] : x \in {y \in rows : y.Id = id}}
     ELSE {[found |-> FALSE, val |-> ZeroUser, err |-> NoErr]})

\* RecordRepository.Insert(ctx, record): an error, the uniqueness violation
\* when the id is taken, or the record stored.
StoreInsert(rows, rec) ==
    {[rows |-> rows, err |-> ErrStore]} \cup
    (IF Conflicts(rows, rec)
     THEN {[rows |-> rows, err |-> ErrUnique]}
     ELSE {[rows |-> rows \cup {rec}, err |-> NoErr]})

\* All fields but pc, id, ref, requestType, fnVal and data are history.
IdleIdemCall ==
    [pc |-> "idle", id |-> 0, ref |-> 0, requestType |-> "",
     found |-> FALSE, gotData |-> <<>>, getErr |-> NoErr, lookup |-> "none",
     fnCalls |-> 0, fnVal |-> ZeroUser, fnErr |-> NoErr, data |-> <<>>,
     inserts |-> 0, inserted |-> GateRecord(0, "", 0, <<>>, 0), insertErr |-> NoErr,
     ret |-> [val |-> ZeroUser, err |-> NoErr]]

\* ------------------------------------- the services over a unit of work
ErrRecordNotFound == "record not found"
ErrAbort == "rollback failed"
ErrLookup == "idempotency lookup failed"
ErrUserInsert == "insert failed"
ErrReadBack == "get failed"
ErrRecordInsert == "record insert failed"
ErrRead == "db error"
ServiceOps == {"CreateUser", "GetUser", "GetLedgers"}

\* GetLedgers returns a slice of ledgers, nil with an error.
NilLedgers == [nil |-> TRUE, rows |-> {}]
Ledgers(rows) == [nil |-> FALSE, rows |-> rows]
NilOf(op) == IF op = "GetLedgers" THEN NilLedgers ELSE ZeroUser

\* db.First(&entity, id): the row, or gorm.ErrRecordNotFound.
First(rows, id) ==
    IF \E x \in rows : x.Id = id
    THEN [found |-> TRUE, val |-> CHOOSE x \in rows : x.Id = id, err |-> NoErr]
    ELSE [found |-> FALSE, val |-> ZeroUser, err |-> ErrRecordNotFound]

\* A Get whose closure returns gorm.ErrRecordNotFound whatever the flag.
GetFnNotFoundIsError(notFoundAsError, f) ==
    [found |-> f.err = NoErr, val |-> IF f.err = NoErr THEN f.val ELSE ZeroUser, err |-> f.err]

\* The closure a repository's Get hands to retry.Execute, given what First
\* answered: a missing row is nil unless the repository was built with
\* notFoundAsError.
GetFn(notFoundAsError, f) ==
    IF f.err # NoErr
    THEN IF ~notFoundAsError /\ f.err = ErrRecordNotFound
         THEN [found |-> FALSE, val |-> ZeroUser, err |-> NoErr]
         ELSE [found |-> FALSE, val |-> ZeroUser, err |-> f.err]
    ELSE [found |-> TRUE, val |-> f.val, err |-> NoErr]

\* The UnitOfWork's accessors build every repository with notFoundAsError false.
UowNotFoundAsError == FALSE

\* transactionDbUnitOfWorkFactory.New: tx := f.db.Begin(); a failed Begin
\* returns (nil, tx.Error), otherwise the UnitOfWork over tx.
FactoryNew(beginErr) == [uow |-> beginErr = NoErr, err |-> beginErr]

\* A service that goes on after uowFactory.New failed.
AfterNewIgnoresError(err) == "run"

\* uow, err := s.uowFactory.New(); if err != nil { return nil, err }
AfterNew(err) == IF err # NoErr THEN "return" ELSE "run"

\* A read that returns its error without finalizing the UnitOfWork.
AfterReadNoAbort(err) == IF err # NoErr THEN "return" ELSE "commit"

\* GetUser and GetLedgers after the repository read: an error aborts,
\* otherwise commit.
AfterRead(err) == IF err # NoErr THEN "abort" ELSE "commit"

\* A service that returns its result although Commit failed.
CommitReturnIgnoresError(op, v, err) == [val |-> v, err |-> NoErr]

\* if err := uow.Commit(ctx); err != nil { return nil, err }; return result, nil
CommitReturn(op, v, err) ==
    IF err # NoErr THEN [val |-> NilOf(op), err |-> err] ELSE [val |-> v, err |-> NoErr]

\* _ = uow.Abort(ctx); return nil, err
AbortReturn(op, err, abortErr) == [val |-> NilOf(op), err |-> err]

\* All fields but pc, op, id, user, val, err and data are history.
IdleOp ==
    [pc |-> "idle", op |-> "none", id |-> 0, user |-> ZeroUser,
     val |-> ZeroUser, err |-> NoErr, data |-> <<>>,
     news |-> 0, newErr |-> NoErr, uow |-> FALSE,
     gateCalls |-> 0, repoCalls |-> 0, commits |-> 0, aborts |-> 0,
     failedStep |-> "none", stepErr |-> NoErr, readMiss |-> FALSE,
     commitErr |-> NoErr, abortErr |-> NoErr,
     returned |-> FALSE, ret |-> [val |-> ZeroUser, err |-> NoErr]]

\* ------------------------------------------- the UnitOfWork's accessors
Repos == {"UserRepository", "LedgerRepository", "IdempotencyRecordRepository"}

\* &transactionDbUnitOfWork{tx, cb, retry}: every repository field nil (0),
\* every sync.Once unused; built and calls are history.
NewUnitOfWork ==
    [done |-> [k \in Repos |-> 0], mutex |-> [k \in Repos |-> 0],
     field |-> [k \in Repos |-> 0], built |-> [k \in Repos |-> 0], calls |-> 0]

\* sync.Once.Do: the fast path, if o.done.Load() == 0 { o.doSlow(f) }.
OnceFast(done) == IF done = 0 THEN "doSlow" ELSE "return"

\* A doSlow that runs f without looking at done again.
OnceRunsUnchecked(done) == TRUE

\* sync.Once.doSlow, holding the mutex: f runs if o.done.Load() == 0.
OnceRuns(done) == done = 0

IdleAccessor == [pc |-> "idle", repo |-> "none", sawDone |-> 0, ran |-> FALSE, got |-> 0]

\* ---------------------------------------------------- a repository's Get
\* UserRepositoryImpl.Get after r.cb.Execute: an error gives (nil, err),
\* otherwise the user the closure set, nil when it set none.
RepoGetReturn(res) ==
    IF res.err # NoErr THEN [val |-> ZeroUser, err |-> res.err]
    ELSE [val |-> res.val, err |-> NoErr]

IdleGet == [pc |-> "idle", method |-> "Get", ctxDone |-> FALSE,
            id |-> 0, notFoundAsError |-> FALSE, gen |-> 0,
            res |-> [found |-> FALSE, val |-> ZeroUser, err |-> NoErr],
            attempts |-> 0, rejected |-> FALSE,
            ret |-> [val |-> ZeroUser, err |-> NoErr]]

\* ------------------------------- the retryable predicate of database.go
\* SQLSTATE codes a storage call can fail with, and PostgreSQL's names of them.
PgCodes == {"40001", "40P01", "08006", "08001", "08004", "23505", "23503", "22P02"}
SqlStateName(code) ==
    CASE code = "40001" -> "serialization_failure"
      [] code = "40P01" -> "deadlock_detected"
      [] code = "08006" -> "connection_failure"
      [] code = "08001" -> "sqlclient_unable_to_establish_sqlconnection"
      [] code = "08004" -> "sqlserver_rejected_establishment_of_sqlconnection"
      [] code = "23505" -> "unique_violation"
      [] code = "23503" -> "foreign_key_violation"
      [] code = "22P02" -> "invalid_text_representation"
      [] OTHER -> "none"

\* The errors of a storage call: a *pgconn.PgError, a *net.OpError, either
\* one wrapped by another error, or an error that holds neither.
NoDbErr == [kind |-> "nil", code |-> ""]
DbErrs == {[kind |-> k, code |-> c] : k \in {"pg", "wrapped pg"}, c \in PgCodes}
            \cup {[kind |-> k, code |-> ""] : k \in {"net", "wrapped net", "other"}}

\* errors.As(err, &pgErr) and pgErr.Code; errors.As(err, &netErr).
AsPgError(e) == IF e.kind \in {"pg", "wrapped pg"} THEN e.code ELSE "none"
AsNetOpError(e) == e.kind \in {"net", "wrapped net"}

\* A predicate that accepts every error.
DbRetryableAll(e) == TRUE

\* The function given to retry.WithRetryable in InitializeDatabase.
DbRetryable(e) ==
    \/ AsPgError(e) \in {"40001", "40P01", "08006", "08001", "08004"}
    \/ AsNetOpError(e)

\* n, fails and permanent are history.
IdleRpc == [pc |-> "idle", outcome |-> [panic |-> FALSE, resp |-> "nil", err |-> <<>>],
            ret |-> [resp |-> "nil", code |-> "OK", msg |-> <<>>], logged |-> 0]

\* GetQuery{}: every field at its zero value
ZeroQuery == [IdEq |-> 0, UserIdEq |-> 0, TransactionTypeEq |-> "", TokenEq |-> ""]
IdleLedgerGet == [done |-> FALSE, query |-> ZeroQuery, table |-> {},
                  ret |-> [val |-> NilLedgers, err |-> NoErr]]

IdleDbCall == [pc |-> "idle", n |-> 0, fails |-> 0, permanent |-> 0,
               last |-> NoDbErr, ret |-> NoDbErr]

InitStore ==
    /\ db = [users |-> {}, records |-> {}]
    /\ tx = [r \in Requests |-> NoTx]
    /\ req = [r \in Requests |-> IdleReq]
    /\ nextId = 1
    /\ faults = 0
    /\ first = [k \in Keys |-> ZeroUser]
    /\ irecords = {}
    /\ icalls = [c \in Callers |-> IdleIdemCall]
    /\ nicalls = 0
    /\ ops = [c \in Callers |-> IdleOp]
    /\ nops = 0
    /\ uw = NewUnitOfWork
    /\ acc = [c \in Callers |-> IdleAccessor]
    /\ rp = [c \in Callers |-> IdleGet]
    /\ nrp = 0
    /\ drt = NewRetry
    /\ dcalls = [c \in Callers |-> IdleDbCall]
    /\ ndcalls = 0
    /\ hcalls = [c \in Callers |-> IdleRpc]
    /\ nhcalls = 0
    /\ errorCalls = 0
    /\ ledgers = {}
    /\ lget = IdleLedgerGet
    /\ lins = NoErr
    /\ hstatus = "SERVING"
    /\ hmain = "start"
    /\ hping = [pc |-> "none", ok |-> FALSE]
    /\ hctxDone = FALSE
    /\ hdbUp = TRUE
    /\ hticks = 0
    /\ hshut = FALSE

\* ------------------------------------------------------------------ SpecCB
IdleCall == [pc |-> "idle", generation |-> 0, saw |-> "Closed", inWindow |-> FALSE,
             first |-> FALSE, invoked |-> 0, op |-> ExecuteReject(NoErr),
             ret |-> ExecuteReject(NoErr), after |-> "Closed", expiryAfter |-> 0,
             retAt |-> 0, tripped |-> FALSE]

SettingsSet == [threshold : 1..MaxThreshold, timeout : 1..MaxTimeout]

InitCB ==
    /\ now = 1
    /\ settings \in SettingsSet
    /\ cb = NewCircuitBreaker(1, settings)
    /\ calls = [c \in Callers |-> IdleCall]
    /\ ncalls = 0
    /\ observed = "Closed"
    /\ openedAt = 0
    /\ failRun = 0
    /\ maxFailRun = 0
    /\ trialsAdmitted = 0
    /\ rcfg = [maxRetries |-> 0, retryableFn |-> "nil", interval |-> 1]
    /\ rt = NewRetry
    /\ rcalls = [c \in Callers |-> IdleRetryCall]
    /\ nrcalls = 0
    /\ InitStore

\* History kept beside a step that takes the breaker from b to b1.
TrackHalfOpen(b, b1, admittedNow) ==
    trialsAdmitted' =
        (IF b1.state = "StateHalfOpen" /\ b.state # "StateHalfOpen"
         THEN 0 ELSE trialsAdmitted)
        + (IF admittedNow /\ b1.state = "StateHalfOpen" THEN 1 ELSE 0)

TrackOpened(b, b1) ==
    openedAt' = IF b1.state = "StateOpen" /\ b1.generation # b.generation
                THEN now ELSE openedAt

CbTick ==
    /\ UNCHANGED outsideCB
    /\ now < MaxTime
    /\ now' = now + 1
    /\ UNCHANGED <<settings, cb, calls, ncalls, observed,
                   openedAt, failRun, maxFailRun, trialsAdmitted>>

\* A caller enters Execute: beforeRequest under the breaker's mutex.
CbEnter(c) ==
    /\ UNCHANGED outsideCB
    /\ calls[c].pc \in {"idle", "returned"}
    /\ ncalls < MaxCalls
    /\ LET r == ExecuteEnter(cb, now, settings)
           adm == r.err = NoErr
           rec == [IdleCall EXCEPT
                     !.generation = r.generation,
                     !.saw = State(r.cb, now, settings),
                     !.inWindow = openedAt # 0 /\ now <= openedAt + settings.timeout,
                     !.first = \/ cb.state = "StateOpen" /\ cb.expiry < now
                               \/ cb.state = "StateHalfOpen" /\ cb.counts.Requests = 0,
                     !.pc = IF adm THEN "admitted" ELSE "returned",
                     !.ret = ExecuteReject(r.err),
                     !.after = State(r.cb, now, settings),
                     !.retAt = now]
       IN /\ cb' = r.cb
          /\ calls' = [calls EXCEPT ![c] = rec]
          /\ TrackHalfOpen(cb, r.cb, adm)
          /\ TrackOpened(cb, r.cb)
    /\ ncalls' = ncalls + 1
    /\ UNCHANGED <<now, settings, observed, failRun, maxFailRun>>

\* The admitted caller invokes the wrapped operation, outside the mutex.
CbInvoke(c) ==
    /\ UNCHANGED outsideCB
    /\ calls[c].pc = "admitted"
    /\ \E res \in OpResults :
         calls' = [calls EXCEPT ![c].pc = "running",
                                ![c].invoked = @ + 1,
                                ![c].op = res]
    /\ UNCHANGED <<now, settings, cb, ncalls, observed,
                   openedAt, failRun, maxFailRun, trialsAdmitted>>

\* The operation has returned: afterRequest under the mutex, then the return.
CbLeave(c) ==
    /\ UNCHANGED outsideCB
    /\ calls[c].pc = "running"
    /\ LET r == ExecuteLeave(cb, calls[c].generation, calls[c].op, now, settings)
           failed == calls[c].op.err # NoErr
           run == IF failed THEN failRun + 1 ELSE 0
           b1 == currentState(cb, now, settings)
           trip == /\ failed
                   /\ b1.state = "StateClosed"
                   /\ b1.generation = calls[c].generation
                   /\ readyToTrip(countFailure(b1).counts, settings)
       IN /\ cb' = r.cb
          /\ calls' = [calls EXCEPT ![c].pc = "returned",
                                    ![c].tripped = trip,
                                    ![c].ret = r.ret,
                                    ![c].after = State(r.cb, now, settings),
                                    ![c].expiryAfter = r.cb.expiry,
                                    ![c].retAt = now]
          /\ failRun' = run
          /\ maxFailRun' = IF run > maxFailRun THEN run ELSE maxFailRun
          /\ TrackHalfOpen(cb, r.cb, FALSE)
          /\ TrackOpened(cb, r.cb)
    /\ UNCHANGED <<now, settings, ncalls, observed>>

\* A caller reads State(): currentState applies the lazy Open -> HalfOpen step.
CbState ==
    /\ UNCHANGED outsideCB
    /\ LET b1 == currentState(cb, now, settings) IN
         /\ cb' = b1
         /\ observed' = State(cb, now, settings)
         /\ TrackHalfOpen(cb, b1, FALSE)
    /\ observed' # observed \/ cb' # cb
    /\ UNCHANGED <<now, settings, calls, ncalls, openedAt, failRun, maxFailRun>>

NextCB ==
    \/ CbTick
    \/ \E c \in Callers : CbEnter(c)
    \/ \E c \in Callers : CbInvoke(c)
    \/ \E c \in Callers : CbLeave(c)
    \/ CbState

SpecCB == InitCB /\ [][NextCB]_vars

\* ---------------------------------------------------------------- SpecRetry
RetryConfigs == [maxRetries : 0..MaxRetriesArg, retryableFn : {"nil", "predicate"},
                 interval : {1}]

InitRetry ==
    /\ rcfg \in RetryConfigs
    /\ rt = NewRetry
    /\ rcalls = [c \in Callers |-> IdleRetryCall]
    /\ nrcalls = 0
    /\ now = 1
    /\ settings = [threshold |-> 1, timeout |-> 1]
    /\ cb = NewCircuitBreaker(1, settings)
    /\ calls = [c \in Callers |-> IdleCall]
    /\ ncalls = 0
    /\ observed = "Closed"
    /\ openedAt = 0
    /\ failRun = 0
    /\ maxFailRun = 0
    /\ trialsAdmitted = 0
    /\ InitStore

\* A caller calls Execute(ctx, fn) on the shared instance, with a context
\* that is live or already done.
RtBegin(c) ==
    /\ UNCHANGED outsideRetry
    /\ rcalls[c].pc \in {"idle", "returned"}
    /\ nrcalls < MaxRetryCalls
    /\ \E done \in BOOLEAN :
         rcalls' = [rcalls EXCEPT ![c] =
                    [IdleRetryCall EXCEPT !.pc = "loop", !.budgetAtStart = rt.attempt,
                        !.ctxDone = done, !.ctxAtCall = done,
                        !.pcAtCancel = IF done THEN "call" ELSE "none"]]
    /\ nrcalls' = nrcalls + 1
    /\ UNCHANGED <<rcfg, rt>>

\* The caller's context is cancelled while its call is in progress.
RtCancel(c) ==
    /\ UNCHANGED outsideRetry
    /\ rcalls[c].pc \in {"loop", "next", "wait"}
    /\ ~rcalls[c].ctxDone
    /\ rcalls' = [rcalls EXCEPT ![c].ctxDone = TRUE,
                                ![c].pcAtCancel = rcalls[c].pc,
                                ![c].nAtCancel = rcalls[c].n]
    /\ UNCHANGED <<rcfg, rt, nrcalls>>

\* goretry.Do, top of the loop: a done context returns ctx.Err(); otherwise fn
\* runs, and nil or a non-retryable error ends the call.
RtAttempt(c) ==
    /\ UNCHANGED outsideRetry
    /\ rcalls[c].pc = "loop"
    /\ IF DoLoopTop(rcalls[c].ctxDone) = "return"
       THEN rcalls' = [rcalls EXCEPT ![c].pc = "returned", ![c].ret = ErrCanceled]
       ELSE \E err \in RetryFnErrors \cup {NoErr} :
              rcalls' = [rcalls EXCEPT
                ![c].n = @ + 1,
                ![c].last = err,
                ![c].prev = rcalls[c].last,
                ![c].fails = IF err # NoErr THEN @ + 1 ELSE @,
                ![c].sawFatal = @ \/ (err # NoErr /\ ~Retryable(rcfg.retryableFn, err)),
                ![c].allRetryable = @ /\ err # NoErr /\ Retryable(rcfg.retryableFn, err),
                ![c].ret = IF err # NoErr /\ Retryable(rcfg.retryableFn, err)
                           THEN NoErr ELSE err,
                ![c].pc = IF err # NoErr /\ Retryable(rcfg.retryableFn, err)
                          THEN "next" ELSE "returned"]
    /\ UNCHANGED <<rcfg, rt, nrcalls>>

\* goretry.Do after a retryable error: b.Next() grants a retry or stops, and a
\* context found done before the wait returns ctx.Err().
RtNext(c) ==
    /\ UNCHANGED outsideRetry
    /\ rcalls[c].pc = "next"
    /\ LET r == BackoffNext(rt, rcfg.maxRetries, rcfg.interval) IN
         /\ rt' = r.rt
         /\ rcalls' = [rcalls EXCEPT ![c] =
              IF r.stop THEN [@ EXCEPT !.pc = "returned", !.ret = rcalls[c].last]
              ELSE IF @.ctxDone
              THEN [@ EXCEPT !.pc = "returned", !.ret = ErrCanceled, !.granted = @ + 1]
              ELSE [@ EXCEPT !.pc = "wait", !.wait = r.wait, !.granted = @ + 1]]
    /\ UNCHANGED <<rcfg, nrcalls>>

\* goretry.Do waiting: the timer fires and the loop continues, or the context
\* is done and ctx.Err() is returned (select takes either when both are ready).
RtWake(c) ==
    /\ UNCHANGED outsideRetry
    /\ rcalls[c].pc = "wait"
    /\ \E to \in DoWait(rcalls[c].ctxDone) :
         rcalls' = [rcalls EXCEPT ![c] =
              IF to = "loop" THEN [@ EXCEPT !.pc = "loop"]
              ELSE [@ EXCEPT !.pc = "returned", !.ret = ErrCanceled]]
    /\ UNCHANGED <<rcfg, rt, nrcalls>>

NextRetry ==
    \/ \E c \in Callers : RtBegin(c)
    \/ \E c \in Callers : RtCancel(c)
    \/ \E c \in Callers : RtAttempt(c)
    \/ \E c \in Callers : RtNext(c)
    \/ \E c \in Callers : RtWake(c)

SpecRetry == InitRetry /\ [][NextRetry]_vars

\* --------------------------------------------------------------------- Spec
\* The composition of bootstrap/database.go: one breaker and one retry
\* executor shared by every repository of every UnitOfWork, and concurrent
\* CreateUser requests, each in its own transaction. A storage statement may
\* fail with an injected fault, MaxFaults times in all. The requests run
\* within one reading of the clock, shorter than any breaker timeout.
Init ==
    /\ now = 1
    /\ settings \in {x \in SettingsSet : x.timeout = MaxTimeout}
    /\ cb = NewCircuitBreaker(1, settings)
    /\ calls = [c \in Callers |-> IdleCall]
    /\ ncalls = 0
    /\ observed = "Closed"
    /\ openedAt = 0
    /\ failRun = 0
    /\ maxFailRun = 0
    /\ trialsAdmitted = 0
    /\ rcfg = DbRetryConfig
    /\ rt = NewRetry
    /\ rcalls = [c \in Callers |-> IdleRetryCall]
    /\ nrcalls = 0
    /\ InitStore

\* The row idempotency.Execute inserts for request rq at time t.
RecordOf(rq, t) ==
    GateRecord(rq.key, RequestTypeCreateUser, rq.user.Id, rq.data, t)

\* idempotency.Execute returning (v, e) to CreateUser, which aborts or commits.
GateReturn(rq, v, e) ==
    [rq EXCEPT !.pc = CreateUserAfterGate(e), !.call = "none", !.stage = "none",
               !.ret = [val |-> v, err |-> e]]

\* fn of CreateUser returning (v, e) to idempotency.Execute.
FnReturn(rq, v, e) ==
    LET g == GateOnFn(v, e) IN
    IF g.next = "return"
    THEN GateReturn([rq EXCEPT !.fnErr = e], g.val, g.err)
    ELSE [rq EXCEPT !.fnErr = e, !.created = v, !.data = g.data, !.recInserts = @ + 1,
                    !.call = "recInsert", !.stage = "enter"]

\* What request rq does once its repository call has returned res: the rest
\* of idempotency.Execute and of fn up to the next repository call.
AfterCall(rq, res) ==
    CASE rq.call = "recGet" ->
           LET g == GateOnGet(res.found, res.val, res.err) IN
           IF g.next = "return"
           THEN GateReturn([rq EXCEPT !.lookup = g.lookup], g.val, g.err)
           ELSE [rq EXCEPT !.lookup = g.lookup,
                           !.fnCalls = @ + 1, !.call = "userInsert", !.stage = "enter"]
      [] rq.call = "userInsert" ->
           IF res.err # NoErr THEN FnReturn(rq, ZeroUser, res.err)
           ELSE [rq EXCEPT !.call = "userGet", !.stage = "enter"]
      [] rq.call = "userGet" ->
           IF res.err # NoErr THEN FnReturn(rq, ZeroUser, res.err)
           ELSE FnReturn(rq, res.val, NoErr)
      [] rq.call = "recInsert" ->
           LET g == GateOnInsert(rq.created, res.err) IN
           GateReturn(rq, g.val, g.err)

\* The storage statement of the repository call request r is in.
Statement(r) ==
    CASE req[r].call = "recGet" -> Get(r, "records", req[r].key)
      [] req[r].call = "userInsert" -> Insert(r, "users", req[r].user)
      [] req[r].call = "userGet" -> Get(r, "users", req[r].user.Id)
      [] req[r].call = "recInsert" -> Insert(r, "records", RecordOf(req[r], now))

StatementBlocked(r) ==
    CASE req[r].call = "userInsert" -> Blocked(r, "users", req[r].user)
      [] req[r].call = "recInsert" -> Blocked(r, "records", RecordOf(req[r], now))
      [] OTHER -> FALSE

\* History: the ids for which a finished request's fn has failed.
FnFailedKeys == {req[x].key : x \in {y \in Requests : req[y].pc = "done" /\ req[y].fnErr # NoErr}}

\* CreateUser up to idempotency.Execute: uowFactory.New() begins a
\* transaction, the snowflake gives the user its id, the clock its times.
\* Requests are numbered in the order they begin, ids in the order of first use.
SvcNew(r) ==
    /\ UNCHANGED outsideSvc
    /\ req[r].pc = "idle"
    /\ \A r2 \in Requests : r2 < r => req[r2].pc # "idle"
    /\ \E k \in {x \in Keys : x <= 1 + Cardinality({req[r2].key : r2 \in Requests} \ {0})} :
         \/ /\ tx' = [tx EXCEPT ![r] = OpenTx]
            /\ req' = [req EXCEPT ![r] =
                 [IdleReq EXCEPT !.pc = "call", !.call = "recGet", !.stage = "enter",
                    !.key = k, !.atStart = {x.Id : x \in db.records},
                    !.failedAtStart = FnFailedKeys,
                    !.user = [Id |-> nextId, Email |-> r, Username |-> r, Password |-> r,
                              CreatedAt |-> now, UpdatedAt |-> now]]]
            /\ nextId' = nextId + 1
            /\ UNCHANGED faults
         \/ /\ faults < MaxFaults
            /\ faults' = faults + 1
            /\ req' = [req EXCEPT ![r] =
                 [IdleReq EXCEPT !.pc = "done", !.key = k,
                    !.atStart = {x.Id : x \in db.records},
                    !.failedAtStart = FnFailedKeys,
                    !.ret = [val |-> ZeroUser, err |-> ErrBegin]]]
            /\ UNCHANGED <<tx, nextId>>
    /\ UNCHANGED <<now, cb, rt, db, first>>

\* A repository method enters r.cb.Execute: admitted, or rejected with the
\* breaker's error, which the repository returns.
SvcEnter(r) ==
    /\ UNCHANGED outsideSvc
    /\ req[r].pc = "call" /\ req[r].stage = "enter"
    /\ LET e == ExecuteEnter(cb, now, settings) IN
         /\ cb' = e.cb
         /\ req' = [req EXCEPT ![r] =
              IF e.err # NoErr
              THEN AfterCall([@ EXCEPT !.rejected = TRUE],
                       [found |-> FALSE, val |-> ZeroUser, err |-> ExecuteReject(e.err).err])
              ELSE [@ EXCEPT !.stage = "attempt", !.gen = e.generation]]
    /\ UNCHANGED <<now, rt, db, tx, nextId, faults, first>>

\* One attempt inside r.retry.Execute: the statement runs in the transaction,
\* or fails with a fault; nil and errors the predicate rejects end the call.
SvcAttempt(r) ==
    /\ UNCHANGED outsideSvc
    /\ req[r].pc = "call" /\ req[r].stage = "attempt"
    /\ \E o \in {Statement(r)} \cup
                {[tx |-> tx[r], found |-> FALSE, val |-> ZeroUser, err |-> e] : e \in FnErrors} :
         /\ IF o.err \in FnErrors
            THEN faults < MaxFaults /\ faults' = faults + 1
            ELSE ~StatementBlocked(r) /\ faults' = faults
         /\ tx' = [tx EXCEPT ![r] = o.tx]
         /\ req' = [req EXCEPT ![r].attempts = @ + 1,
                ![r].res = [found |-> o.found, val |-> o.val, err |-> o.err],
                ![r].stage = IF o.err # NoErr /\ Retryable(rcfg.retryableFn, o.err)
                             THEN "next" ELSE "leave"]
    /\ UNCHANGED <<now, cb, rt, db, nextId, first>>

\* goretry.Do after a retryable error: the shared backoff grants a retry or
\* stops, and the error is returned.
SvcNext(r) ==
    /\ UNCHANGED outsideSvc
    /\ req[r].pc = "call" /\ req[r].stage = "next"
    /\ LET b == BackoffNext(rt, rcfg.maxRetries, rcfg.interval) IN
         /\ rt' = b.rt
         /\ req' = [req EXCEPT ![r].stage = IF b.stop THEN "leave" ELSE "wait"]
    /\ UNCHANGED <<now, cb, db, tx, nextId, faults, first>>

\* The backoff's wait is over.
SvcWake(r) ==
    /\ UNCHANGED outsideSvc
    /\ req[r].pc = "call" /\ req[r].stage = "wait"
    /\ req' = [req EXCEPT ![r].stage = "attempt"]
    /\ UNCHANGED <<now, cb, rt, db, tx, nextId, faults, first>>

\* r.cb.Execute records the outcome of the whole retried call and the
\* repository method returns; the gate and fn run on to the next call.
SvcLeave(r) ==
    /\ UNCHANGED outsideSvc
    /\ req[r].pc = "call" /\ req[r].stage = "leave"
    /\ LET x == ExecuteLeave(cb, req[r].gen, req[r].res, now, settings) IN
         /\ cb' = x.cb
         /\ req' = [req EXCEPT ![r] = AfterCall(@, x.ret)]
    /\ UNCHANGED <<now, rt, db, tx, nextId, faults, first>>

\* uow.Commit: the transaction's rows become committed together, or the
\* commit fails and none does.
SvcCommit(r) ==
    /\ UNCHANGED outsideSvc
    /\ req[r].pc = "commit"
    /\ \/ /\ db' = [users |-> db.users \cup tx[r].users,
                    records |-> db.records \cup tx[r].records]
          /\ tx' = [tx EXCEPT ![r].status = "committed"]
          /\ req' = [req EXCEPT ![r].pc = "done"]
          /\ first' = IF tx[r].records # {}
                      THEN [first EXCEPT ![req[r].key] = req[r].ret.val] ELSE first
          /\ UNCHANGED faults
       \/ /\ faults < MaxFaults
          /\ faults' = faults + 1
          /\ tx' = [tx EXCEPT ![r] = [NoTx EXCEPT !.status = "rolledback"]]
          /\ req' = [req EXCEPT ![r].pc = "done",
                                ![r].ret = [val |-> ZeroUser, err |-> ErrCommit]]
          /\ UNCHANGED <<db, first>>
    /\ UNCHANGED <<now, cb, rt, nextId>>

\* uow.Abort: the transaction is rolled back (the error of Rollback is
\* dropped) and CreateUser returns the gate's error.
SvcAbort(r) ==
    /\ UNCHANGED outsideSvc
    /\ req[r].pc = "abort"
    /\ tx' = [tx EXCEPT ![r] = [NoTx EXCEPT !.status = "rolledback"]]
    /\ req' = [req EXCEPT ![r].pc = "done"]
    /\ UNCHANGED <<now, cb, rt, db, nextId, faults, first>>

Next ==
    \/ \E r \in Requests : SvcNew(r)
    \/ \E r \in Requests : SvcEnter(r)
    \/ \E r \in Requests : SvcAttempt(r)
    \/ \E r \in Requests : SvcNext(r)
    \/ \E r \in Requests : SvcWake(r)
    \/ \E r \in Requests : SvcLeave(r)
    \/ \E r \in Requests : SvcCommit(r)
    \/ \E r \in Requests : SvcAbort(r)

Spec == Init /\ [][Next]_vars

\* ----------------------------------------------------------------- SpecIdem
\* idempotency.Execute called concurrently over one RecordRepository, with fn
\* and the repository free to succeed or fail, as in the gate's unit tests.
InitIdem ==
    /\ now = 1
    /\ settings = [threshold |-> 1, timeout |-> 1]
    /\ cb = NewCircuitBreaker(1, settings)
    /\ calls = [c \in Callers |-> IdleCall]
    /\ ncalls = 0
    /\ observed = "Closed"
    /\ openedAt = 0
    /\ failRun = 0
    /\ maxFailRun = 0
    /\ trialsAdmitted = 0
    /\ rcfg = DbRetryConfig
    /\ rt = NewRetry
    /\ rcalls = [c \in Callers |-> IdleRetryCall]
    /\ nrcalls = 0
    /\ db = [users |-> {}, records |-> {}]
    /\ tx = [r \in Requests |-> NoTx]
    /\ req = [r \in Requests |-> IdleReq]
    /\ nextId = 1
    /\ faults = 0
    /\ first = [k \in Keys |-> ZeroUser]
    /\ irecords \in SeedStores
    /\ icalls = [c \in Callers |-> IdleIdemCall]
    /\ nicalls = 0
    /\ ops = [c \in Callers |-> IdleOp]
    /\ nops = 0
    /\ uw = NewUnitOfWork
    /\ acc = [c \in Callers |-> IdleAccessor]
    /\ rp = [c \in Callers |-> IdleGet]
    /\ nrp = 0
    /\ drt = NewRetry
    /\ dcalls = [c \in Callers |-> IdleDbCall]
    /\ ndcalls = 0
    /\ hcalls = [c \in Callers |-> IdleRpc]
    /\ nhcalls = 0
    /\ errorCalls = 0
    /\ ledgers = {}
    /\ lget = IdleLedgerGet
    /\ lins = NoErr
    /\ hstatus = "SERVING"
    /\ hmain = "start"
    /\ hping = [pc |-> "none", ok |-> FALSE]
    /\ hctxDone = FALSE
    /\ hdbUp = TRUE
    /\ hticks = 0
    /\ hshut = FALSE

\* Execute(ctx, repo, id, requestType, referenceId, newResult, fn) is called.
IgBegin(c) ==
    /\ UNCHANGED outsideIdem
    /\ icalls[c].pc \in {"idle", "returned"}
    /\ nicalls < MaxIdemCalls
    /\ \E id \in Keys, ref \in RefIds, rtype \in RequestTypes :
         icalls' = [icalls EXCEPT ![c] =
            [IdleIdemCall EXCEPT !.pc = "get", !.id = id, !.ref = ref,
                                 !.requestType = rtype]]
    /\ nicalls' = nicalls + 1
    /\ UNCHANGED irecords

\* repo.Get and what Execute does with its answer, up to fn.
IgGet(c) ==
    /\ UNCHANGED outsideIdem
    /\ icalls[c].pc = "get"
    /\ \E o \in StoreGet(irecords, icalls[c].id) :
         LET g == GateOnGet(o.found, o.val, o.err) IN
         icalls' = [icalls EXCEPT
            ![c].found = o.found,
            ![c].gotData = IF o.found THEN o.val.ResponseData ELSE <<>>,
            ![c].getErr = o.err,
            ![c].lookup = g.lookup,
            ![c].ret = [val |-> g.val, err |-> g.err],
            ![c].pc = IF g.next = "return" THEN "returned" ELSE "fn"]
    /\ UNCHANGED <<irecords, nicalls>>

\* fn() and what Execute does with its result, up to repo.Insert.
IgFn(c) ==
    /\ UNCHANGED outsideIdem
    /\ icalls[c].pc = "fn"
    /\ \E f \in FnOutcomes(c) :
         LET g == GateOnFn(f.val, f.err) IN
         icalls' = [icalls EXCEPT
            ![c].fnCalls = @ + 1,
            ![c].fnVal = f.val,
            ![c].fnErr = f.err,
            ![c].data = g.data,
            ![c].ret = [val |-> g.val, err |-> g.err],
            ![c].pc = IF g.next = "return" THEN "returned" ELSE "insert"]
    /\ UNCHANGED <<irecords, nicalls>>

\* repo.Insert of the record and Execute's return.
IgInsert(c) ==
    /\ UNCHANGED outsideIdem
    /\ icalls[c].pc = "insert"
    /\ LET rec == GateRecord(icalls[c].id, icalls[c].requestType, icalls[c].ref,
                             icalls[c].data, now) IN
       \E o \in StoreInsert(irecords, rec) :
         LET g == GateOnInsert(icalls[c].fnVal, o.err) IN
         /\ irecords' = o.rows
         /\ icalls' = [icalls EXCEPT
               ![c].inserts = @ + 1,
               ![c].inserted = rec,
               ![c].insertErr = o.err,
               ![c].ret = [val |-> g.val, err |-> g.err],
               ![c].pc = "returned"]
    /\ UNCHANGED nicalls

NextIdem ==
    \/ \E c \in Callers : IgBegin(c)
    \/ \E c \in Callers : IgGet(c)
    \/ \E c \in Callers : IgFn(c)
    \/ \E c \in Callers : IgInsert(c)

SpecIdem == InitIdem /\ [][NextIdem]_vars

\* --------------------------------------------------- claims on the gate
NilResult(c, err) == icalls[c].ret = [val |-> ZeroUser, err |-> err]

\* C16: when the record store's Get fails, Execute returns that error and a
\* nil result, and neither fn nor Insert is invoked.
C16_GetErrorStops ==
    \A c \in Callers :
        (icalls[c].pc # "idle" /\ icalls[c].getErr # NoErr) =>
            /\ icalls[c].pc = "returned"
            /\ NilResult(c, icalls[c].getErr)
            /\ icalls[c].fnCalls = 0
            /\ icalls[c].inserts = 0

\* A call whose lookup failed although the store holds a record of its id.
C16_Witness ==
    \E c \in Callers :
        /\ icalls[c].pc = "returned"
        /\ icalls[c].getErr = ErrStore
        /\ \E x \in irecords : x.Id = icalls[c].id

\* C17: when a record is found but its responseData cannot be deserialized,
\* Execute returns the deserialization error and a nil result; it does not
\* fall back to running fn or to inserting.
C17_CorruptRecordStops ==
    \A c \in Callers :
        (icalls[c].found /\ UnmarshalErr(icalls[c].gotData) # NoErr) =>
            /\ icalls[c].pc = "returned"
            /\ NilResult(c, ErrSyntax)
            /\ icalls[c].fnCalls = 0
            /\ icalls[c].inserts = 0

C17_Witness ==
    \E c \in Callers :
        /\ icalls[c].pc = "returned"
        /\ icalls[c].found
        /\ icalls[c].gotData = CorruptRecord.ResponseData
        /\ icalls[c].ret.err = ErrSyntax

\* C18: when fn succeeds but its result cannot be serialized, Execute returns
\* the serialization error and a nil result, and Insert is never invoked.
C18_UnserializableStops ==
    \A c \in Callers :
        (icalls[c].fnCalls > 0 /\ icalls[c].fnErr = NoErr
            /\ MarshalErr(icalls[c].fnVal) # NoErr) =>
            /\ icalls[c].pc = "returned"
            /\ NilResult(c, ErrUnsupportedType)
            /\ icalls[c].inserts = 0

C18_Witness ==
    \E c \in Callers :
        /\ icalls[c].pc = "returned"
        /\ icalls[c].fnCalls = 1
        /\ icalls[c].fnVal = Unserializable
        /\ icalls[c].ret.err = ErrUnsupportedType

\* C19: when Insert fails, the primary-key uniqueness violation of a
\* concurrent duplicate included, Execute returns that store error and a nil
\* result; the error is never swallowed.
C19_InsertErrorReturned ==
    \A c \in Callers :
        (icalls[c].inserts > 0 /\ icalls[c].insertErr # NoErr) =>
            /\ icalls[c].pc = "returned"
            /\ NilResult(c, icalls[c].insertErr)
            /\ icalls[c].inserted \notin irecords \/ icalls[c].insertErr = ErrUnique

\* Two calls of one id both missed and both ran fn; the second Insert met the
\* first one's record.
C19_Witness ==
    \E c, d \in Callers :
        /\ c # d
        /\ icalls[c].id = icalls[d].id
        /\ icalls[c].lookup = "miss" /\ icalls[d].lookup = "miss"
        /\ icalls[d].inserts = 1 /\ icalls[d].insertErr = NoErr
        /\ icalls[c].pc = "returned"
        /\ icalls[c].insertErr = ErrUnique
        /\ icalls[c].ret.err = ErrUnique

FreshSuccess(c) ==
    /\ icalls[c].pc = "returned"
    /\ icalls[c].getErr = NoErr
    /\ ~icalls[c].found
    /\ icalls[c].fnCalls = 1
    /\ icalls[c].fnErr = NoErr
    /\ MarshalErr(icalls[c].fnVal) = NoErr

\* C20: on a miss with fn succeeding, Execute inserts exactly one record
\* whose id, requestType and referenceId are the call's arguments and whose
\* responseData is the serialization of fn's result, and then returns fn's
\* original result.
C20_FreshPathInsertsOnce ==
    \A c \in Callers :
        FreshSuccess(c) =>
            /\ icalls[c].inserts = 1
            /\ icalls[c].inserted.Id = icalls[c].id
            /\ icalls[c].inserted.RequestType = icalls[c].requestType
            /\ icalls[c].inserted.ReferenceId = icalls[c].ref
            /\ icalls[c].inserted.ResponseData = Marshal(icalls[c].fnVal)
            /\ icalls[c].insertErr = NoErr =>
                  /\ icalls[c].ret = [val |-> icalls[c].fnVal, err |-> NoErr]
                  /\ icalls[c].inserted \in irecords

C20_Witness ==
    \E c \in Callers :
        /\ FreshSuccess(c)
        /\ icalls[c].insertErr = NoErr
        /\ icalls[c].ret.val = ResultOf(c)
        /\ icalls[c].inserted \in irecords

\* ------------------------------------------------------------------ SpecSvc
\* CreateUser, GetUser and GetLedgers called concurrently, each over its own
\* UnitOfWork, with the factory, every repository call, Commit and Abort free
\* to succeed or fail, as in the services' unit tests.
SvcUsers == {SeedUser}
SvcRecords == {SeedRecord}
UserIds == {SeedUser.Id, 404}
LedgerRows == {{}, {1}}
OpIds(op) == IF op = "CreateUser" THEN Keys ELSE IF op = "GetUser" THEN UserIds ELSE {0}

InitOps ==
    /\ now = 1
    /\ settings = [threshold |-> 1, timeout |-> 1]
    /\ cb = NewCircuitBreaker(1, settings)
    /\ calls = [c \in Callers |-> IdleCall]
    /\ ncalls = 0
    /\ observed = "Closed"
    /\ openedAt = 0
    /\ failRun = 0
    /\ maxFailRun = 0
    /\ trialsAdmitted = 0
    /\ rcfg = DbRetryConfig
    /\ rt = NewRetry
    /\ rcalls = [c \in Callers |-> IdleRetryCall]
    /\ nrcalls = 0
    /\ InitStore

\* A service operation is called.
OpBegin(c) ==
    /\ UNCHANGED outsideOps
    /\ ops[c].pc \in {"idle", "done"}
    /\ nops < MaxOps
    /\ \E op \in ServiceOps : \E id \in OpIds(op) :
         ops' = [ops EXCEPT ![c] =
            [IdleOp EXCEPT !.pc = "new", !.op = op, !.id = id, !.val = NilOf(op),
                           !.ret = [val |-> NilOf(op), err |-> NoErr],
                           !.user = [ZeroUser EXCEPT !.Email = c]]]
    /\ nops' = nops + 1

\* s.uowFactory.New(): db.Begin() gives a UnitOfWork or an error; CreateUser
\* then stamps the user and enters idempotency.Execute.
OpNew(c) ==
    /\ UNCHANGED outsideOps
    /\ ops[c].pc = "new"
    /\ \E b \in {NoErr, ErrBegin} :
         LET f == FactoryNew(b)
             e == f.err IN
         ops' = [ops EXCEPT ![c] =
            IF AfterNew(e) = "return"
            THEN [@ EXCEPT !.news = @ + 1, !.newErr = e, !.uow = f.uow,
                           !.pc = "done", !.returned = TRUE,
                           !.ret = [val |-> NilOf(ops[c].op), err |-> e]]
            ELSE IF @.op = "CreateUser"
            THEN [@ EXCEPT !.news = @ + 1, !.newErr = e, !.uow = f.uow,
                           !.user = [@ EXCEPT !.Id = 100 + c, !.CreatedAt = now,
                                              !.UpdatedAt = now],
                           !.gateCalls = @ + 1, !.pc = "recGet"]
            ELSE [@ EXCEPT !.news = @ + 1, !.newErr = e, !.uow = f.uow,
                           !.pc = "read"]]
    /\ UNCHANGED nops

\* idempotency.Execute returning (v, e) to CreateUser.
OpGateDone(o, step, v, e) ==
    [o EXCEPT !.val = v, !.err = e, !.stepErr = e,
              !.failedStep = IF e # NoErr THEN step ELSE "none",
              !.pc = CreateUserAfterGate(e)]

\* The gate's repo.Get.
OpRecGet(c) ==
    /\ UNCHANGED outsideOps
    /\ ops[c].pc = "recGet"
    /\ \E o \in {[found |-> FALSE, val |-> ZeroUser, err |-> ErrLookup],
                 GetFn(UowNotFoundAsError, First(SvcRecords, ops[c].id))} :
         LET g == GateOnGet(o.found, o.val, o.err) IN
         ops' = [ops EXCEPT ![c] =
            IF g.next = "return"
            THEN OpGateDone([@ EXCEPT !.repoCalls = @ + 1], "recGet", g.val, g.err)
            ELSE [@ EXCEPT !.repoCalls = @ + 1, !.pc = "userInsert"]]
    /\ UNCHANGED nops

\* fn: uow.UserRepository().Insert(ctx, user).
OpUserInsert(c) ==
    /\ UNCHANGED outsideOps
    /\ ops[c].pc = "userInsert"
    /\ \E e \in {NoErr, ErrUserInsert} :
         ops' = [ops EXCEPT ![c] =
            IF e # NoErr
            THEN LET g == GateOnFn(ZeroUser, e) IN
                 OpGateDone([@ EXCEPT !.repoCalls = @ + 1], "userInsert", g.val, g.err)
            ELSE [@ EXCEPT !.repoCalls = @ + 1, !.pc = "userGet"]]
    /\ UNCHANGED nops

\* fn: uow.UserRepository().Get(ctx, user.Id), and the gate up to repo.Insert.
OpUserGet(c) ==
    /\ UNCHANGED outsideOps
    /\ ops[c].pc = "userGet"
    /\ \E o \in {[val |-> ops[c].user, err |-> NoErr],
                 [val |-> ZeroUser, err |-> ErrReadBack]} :
         LET g == GateOnFn(o.val, o.err) IN
         ops' = [ops EXCEPT ![c] =
            IF g.next = "return"
            THEN OpGateDone([@ EXCEPT !.repoCalls = @ + 1], "userGet", g.val, g.err)
            ELSE [@ EXCEPT !.repoCalls = @ + 1, !.val = g.val, !.data = g.data,
                           !.pc = "recInsert"]]
    /\ UNCHANGED nops

\* The gate's repo.Insert and its return.
OpRecInsert(c) ==
    /\ UNCHANGED outsideOps
    /\ ops[c].pc = "recInsert"
    /\ \E e \in {NoErr, ErrRecordInsert, ErrUnique} :
         LET g == GateOnInsert(ops[c].val, e) IN
         ops' = [ops EXCEPT ![c] =
            OpGateDone([@ EXCEPT !.repoCalls = @ + 1], "recInsert", g.val, g.err)]
    /\ UNCHANGED nops

\* What the repository read of GetUser or GetLedgers can answer.
ReadOutcomes(o) ==
    IF o.op = "GetUser"
    THEN {[val |-> ZeroUser, err |-> ErrRead, miss |-> FALSE]} \cup
         {LET f == First(SvcUsers, o.id)
              g == GetFn(UowNotFoundAsError, f) IN
          [val |-> g.val, err |-> g.err, miss |-> ~f.found]}
    ELSE {[val |-> NilLedgers, err |-> ErrRead, miss |-> FALSE]} \cup
         {[val |-> Ledgers(rows), err |-> NoErr, miss |-> FALSE] : rows \in LedgerRows}

\* uow.UserRepository().Get(ctx, id) or uow.LedgerRepository().Get(ctx, query).
OpRead(c) ==
    /\ UNCHANGED outsideOps
    /\ ops[c].pc = "read"
    /\ \E o \in ReadOutcomes(ops[c]) :
         ops' = [ops EXCEPT ![c] =
            LET next == AfterRead(o.err)
                x == [@ EXCEPT !.repoCalls = @ + 1, !.val = o.val, !.err = o.err,
                               !.stepErr = o.err, !.readMiss = o.miss,
                               !.failedStep = IF o.err # NoErr THEN "read" ELSE "none"] IN
            IF next = "return"
            THEN [x EXCEPT !.pc = "done", !.returned = TRUE,
                           !.ret = [val |-> NilOf(x.op), err |-> o.err]]
            ELSE [x EXCEPT !.pc = next]]
    /\ UNCHANGED nops

\* uow.Commit(ctx) and the operation's return.
OpCommit(c) ==
    /\ UNCHANGED outsideOps
    /\ ops[c].pc = "commit"
    /\ \E e \in {NoErr, ErrCommit} :
         ops' = [ops EXCEPT ![c].commits = @ + 1, ![c].commitErr = e,
                            ![c].ret = CommitReturn(ops[c].op, ops[c].val, e),
                            ![c].returned = TRUE, ![c].pc = "done"]
    /\ UNCHANGED nops

\* uow.Abort(ctx) and the operation's return.
OpAbort(c) ==
    /\ UNCHANGED outsideOps
    /\ ops[c].pc = "abort"
    /\ \E e \in {NoErr, ErrAbort} :
         ops' = [ops EXCEPT ![c].aborts = @ + 1, ![c].abortErr = e,
                            ![c].ret = AbortReturn(ops[c].op, ops[c].err, e),
                            ![c].returned = TRUE, ![c].pc = "done"]
    /\ UNCHANGED nops

NextOps ==
    \/ \E c \in Callers : OpBegin(c)
    \/ \E c \in Callers : OpNew(c)
    \/ \E c \in Callers : OpRecGet(c)
    \/ \E c \in Callers : OpUserInsert(c)
    \/ \E c \in Callers : OpUserGet(c)
    \/ \E c \in Callers : OpRecInsert(c)
    \/ \E c \in Callers : OpRead(c)
    \/ \E c \in Callers : OpCommit(c)
    \/ \E c \in Callers : OpAbort(c)

SpecSvc == InitOps /\ [][NextOps]_vars

\* ------------------------------------------- claims on the service layer
\* C22: in every service operation whose UnitOfWorkFactory.New succeeded,
\* Commit and Abort are never both invoked and neither is invoked twice, and
\* when the operation has returned exactly one of them has been invoked once.
C22_ExactlyOneFinalization ==
    \A c \in Callers :
        ops[c].uow =>
            /\ ops[c].commits + ops[c].aborts <= 1
            /\ ops[c].returned => ops[c].commits + ops[c].aborts = 1

\* One operation has returned after Commit alone, another after Abort alone.
C22_Witness ==
    \E c, d \in Callers :
        /\ ops[c].returned /\ ops[c].uow /\ ops[c].commits = 1 /\ ops[c].aborts = 0
        /\ ops[d].returned /\ ops[d].uow /\ ops[d].commits = 0 /\ ops[d].aborts = 1
        /\ ops[c].op = "CreateUser" /\ ops[d].op = "GetLedgers"

\* C23: when a step after opening the UnitOfWork fails (idempotency lookup,
\* entity insert, read-back, record insert or the repository read), the
\* service invokes Abort, never Commit, and returns that step's error with a
\* nil result.
C23_StepErrorAborts ==
    \A c \in Callers :
        ops[c].failedStep # "none" =>
            /\ ops[c].pc \in {"abort", "done"}
            /\ ops[c].commits = 0
            /\ ops[c].returned =>
                  /\ ops[c].aborts = 1
                  /\ ops[c].ret = [val |-> NilOf(ops[c].op), err |-> ops[c].stepErr]
                  /\ ops[c].stepErr # NoErr

\* A CreateUser whose read-back failed and a GetUser whose read failed have
\* both returned.
C23_Witness ==
    \E c, d \in Callers :
        /\ ops[c].op = "CreateUser" /\ ops[c].failedStep = "userGet"
        /\ ops[c].returned /\ ops[c].ret.err = ErrReadBack
        /\ ops[d].op = "GetUser" /\ ops[d].failedStep = "read"
        /\ ops[d].returned /\ ops[d].ret.err = ErrRead

\* C24: when Commit fails after every step succeeded, the operation returns
\* the commit error and a nil result, never the created or read entity.
C24_CommitErrorReturned ==
    \A c \in Callers :
        ops[c].commitErr # NoErr =>
            /\ ops[c].failedStep = "none"
            /\ ops[c].returned
            /\ ops[c].ret = [val |-> NilOf(ops[c].op), err |-> ops[c].commitErr]

\* A CreateUser that inserted and read back its user has returned the commit
\* error.
C24_Witness ==
    \E c \in Callers :
        /\ ops[c].op = "CreateUser" /\ ops[c].repoCalls = 4
        /\ ops[c].val = ops[c].user /\ ops[c].val # ZeroUser
        /\ ops[c].commitErr = ErrCommit /\ ops[c].returned
        /\ ops[c].ret.err = ErrCommit

\* C25: the error of a failed Commit and the error of a failed Abort are
\* each returned to the caller of the service operation.
C25_FinalizationErrorSurfaced ==
    \A c \in Callers :
        ops[c].returned =>
            /\ ops[c].commitErr # NoErr => ops[c].ret.err = ops[c].commitErr
            /\ ops[c].abortErr # NoErr => ops[c].ret.err = ops[c].abortErr

\* C26: a GetUser whose repository read finds no row gets no entity and no
\* error from the repository, invokes Commit and not Abort, and returns a nil
\* entity with a nil error when the commit succeeds.
C26_AbsentIsNotAnError ==
    \A c \in Callers :
        (ops[c].op = "GetUser" /\ ops[c].readMiss) =>
            /\ ops[c].err = NoErr /\ ops[c].val = ZeroUser
            /\ ops[c].pc \in {"commit", "done"}
            /\ ops[c].aborts = 0
            /\ ops[c].returned => ops[c].commits = 1
            /\ (ops[c].returned /\ ops[c].commitErr = NoErr)
                  => ops[c].ret = [val |-> ZeroUser, err |-> NoErr]

C26_Witness ==
    \E c \in Callers :
        /\ ops[c].op = "GetUser" /\ ops[c].id \notin {u.Id : u \in SvcUsers}
        /\ ops[c].readMiss /\ ops[c].returned
        /\ ops[c].commits = 1 /\ ops[c].commitErr = NoErr
        /\ ops[c].ret = [val |-> ZeroUser, err |-> NoErr]

\* C27: when beginning the transaction fails, the factory gives no
\* UnitOfWork and the operation returns that error with no repository call,
\* no gate call, no Commit and no Abort.
C27_BeginErrorReturned ==
    \A c \in Callers :
        ops[c].newErr # NoErr =>
            /\ ~ops[c].uow
            /\ ops[c].returned
            /\ ops[c].ret = [val |-> NilOf(ops[c].op), err |-> ops[c].newErr]
            /\ ops[c].repoCalls = 0 /\ ops[c].gateCalls = 0
            /\ ops[c].commits = 0 /\ ops[c].aborts = 0

C27_Witness ==
    \E c, d \in Callers :
        /\ ops[c].op = "CreateUser" /\ ops[c].newErr = ErrBegin /\ ops[c].returned
        /\ ops[d].op = "GetLedgers" /\ ops[d].newErr = ErrBegin /\ ops[d].returned
        /\ ops[c].ret.err = ErrBegin /\ ops[d].ret.err = ErrBegin

\* ------------------------------------------------------------------ SpecUow
\* Threads sharing one UnitOfWork call its repository accessors concurrently.
InitUow == InitOps

\* UserRepository(), LedgerRepository() or IdempotencyRecordRepository() is
\* called.
AccBegin(c) ==
    /\ UNCHANGED outsideUow
    /\ acc[c].pc \in {"idle", "returned"}
    /\ uw.calls < MaxAccessorCalls
    /\ \E k \in Repos :
         acc' = [acc EXCEPT ![c] = [IdleAccessor EXCEPT !.pc = "do", !.repo = k]]
    /\ uw' = [uw EXCEPT !.calls = @ + 1]

\* Once.Do reads done.
AccDo(c) ==
    /\ UNCHANGED outsideUow
    /\ acc[c].pc = "do"
    /\ LET d == uw.done[acc[c].repo] IN
       acc' = [acc EXCEPT ![c].sawDone = d,
                          ![c].pc = IF OnceFast(d) = "doSlow" THEN "lock" ELSE "read"]
    /\ UNCHANGED uw

\* doSlow: o.m.Lock().
AccLock(c) ==
    /\ UNCHANGED outsideUow
    /\ acc[c].pc = "lock"
    /\ uw.mutex[acc[c].repo] = 0
    /\ uw' = [uw EXCEPT !.mutex[acc[c].repo] = c]
    /\ acc' = [acc EXCEPT ![c].pc = "slow"]

\* doSlow under the mutex: f builds the repository and stores it in the field.
AccSlow(c) ==
    /\ UNCHANGED outsideUow
    /\ acc[c].pc = "slow"
    /\ LET k == acc[c].repo IN
       IF OnceRuns(uw.done[k])
       THEN /\ uw' = [uw EXCEPT !.built[k] = @ + 1, !.field[k] = uw.built[k] + 1]
            /\ acc' = [acc EXCEPT ![c].ran = TRUE, ![c].pc = "unlock"]
       ELSE /\ acc' = [acc EXCEPT ![c].pc = "unlock"]
            /\ UNCHANGED uw

\* doSlow's deferred calls: o.done.Store(1) if f ran, then o.m.Unlock().
AccUnlock(c) ==
    /\ UNCHANGED outsideUow
    /\ acc[c].pc = "unlock"
    /\ LET k == acc[c].repo IN
       uw' = [uw EXCEPT !.done[k] = IF acc[c].ran THEN 1 ELSE @, !.mutex[k] = 0]
    /\ acc' = [acc EXCEPT ![c].pc = "read"]

\* return u.userRepository (or the field of the accessor called).
AccReturn(c) ==
    /\ UNCHANGED outsideUow
    /\ acc[c].pc = "read"
    /\ acc' = [acc EXCEPT ![c].got = uw.field[acc[c].repo], ![c].pc = "returned"]
    /\ UNCHANGED uw

NextUow ==
    \/ \E c \in Callers : AccBegin(c)
    \/ \E c \in Callers : AccDo(c)
    \/ \E c \in Callers : AccLock(c)
    \/ \E c \in Callers : AccSlow(c)
    \/ \E c \in Callers : AccUnlock(c)
    \/ \E c \in Callers : AccReturn(c)

SpecUow == InitUow /\ [][NextUow]_vars

\* C28: on one UnitOfWork each accessor constructs its repository at most
\* once, and every call of an accessor returns the one instance constructed
\* for it, also when the first calls run concurrently.
C28_AccessorOnce ==
    /\ \A k \in Repos : uw.built[k] <= 1
    /\ \A c \in Callers :
         acc[c].pc = "returned" =>
            /\ uw.built[acc[c].repo] = 1
            /\ acc[c].got = 1

\* Two threads made the first call of one accessor together: both found the
\* Once unused, one constructed, and both returned the same instance.
C28_Witness ==
    \E c, d \in Callers :
        /\ c # d
        /\ acc[c].repo = acc[d].repo
        /\ acc[c].pc = "returned" /\ acc[d].pc = "returned"
        /\ acc[c].sawDone = 0 /\ acc[d].sawDone = 0
        /\ acc[c].ran /\ ~acc[d].ran
        /\ acc[c].got = acc[d].got /\ acc[c].got # 0

\* ----------------------------------------------------------------- SpecRepo
\* Get called concurrently on user repositories built with either value of
\* notFoundAsError over one table, one breaker and one retry executor, as in
\* TestUserRepository_Get; the retry executor has the predicate of
\* database.go or none.
RepoRows == {[ZeroUser EXCEPT !.Id = 1, !.Email = 7]}
RepoIds == {1, 999}

InitRepo ==
    /\ now = 1
    /\ settings \in {x \in SettingsSet : x.timeout = MaxTimeout}
    /\ cb = NewCircuitBreaker(1, settings)
    /\ calls = [c \in Callers |-> IdleCall]
    /\ ncalls = 0
    /\ observed = "Closed"
    /\ openedAt = 0
    /\ failRun = 0
    /\ maxFailRun = 0
    /\ trialsAdmitted = 0
    /\ rcfg \in {DbRetryConfig, [DbRetryConfig EXCEPT !.retryableFn = "nil"]}
    /\ rt = NewRetry
    /\ rcalls = [c \in Callers |-> IdleRetryCall]
    /\ nrcalls = 0
    /\ InitStore

\* NewUserRepository(db, cb, retry, notFoundAsError).Get(ctx, id) is called,
\* or Insert(ctx, user) with a user whose id is taken (the losing duplicate;
\* inserts of new rows are in Spec).
RpBegin(c) ==
    /\ UNCHANGED outsideRepo
    /\ rp[c].pc \in {"idle", "returned"}
    /\ nrp < MaxRepoCalls
    /\ \/ \E id \in RepoIds, nf \in BOOLEAN :
            rp' = [rp EXCEPT ![c] =
               [IdleGet EXCEPT !.pc = "enter", !.id = id, !.notFoundAsError = nf]]
       \/ \E id \in {x.Id : x \in RepoRows} :
            rp' = [rp EXCEPT ![c] =
               [IdleGet EXCEPT !.pc = "enter", !.method = "Insert", !.id = id]]
    /\ nrp' = nrp + 1
    /\ UNCHANGED <<cb, rt>>

\* The caller's context is cancelled while the call is under way.
RpCancel(c) ==
    /\ UNCHANGED outsideRepo
    /\ rp[c].pc \in {"enter", "attempt", "next", "wait"}
    /\ ~rp[c].ctxDone
    /\ rp' = [rp EXCEPT ![c].ctxDone = TRUE]
    /\ UNCHANGED <<cb, rt, nrp>>

\* The closure of the method: First(&entity, id) for Get, Create(&entity) for
\* Insert.
RepoStatement(c) ==
    IF rp[c].method = "Get"
    THEN GetFn(rp[c].notFoundAsError, First(RepoRows, rp[c].id))
    ELSE [found |-> FALSE, val |-> ZeroUser,
          err |-> IF Conflicts(RepoRows, [ZeroUser EXCEPT !.Id = rp[c].id])
                  THEN ErrUnique ELSE NoErr]

Canceled == [found |-> FALSE, val |-> ZeroUser, err |-> ErrCanceled]

\* r.cb.Execute admits the call or rejects it.
RpEnter(c) ==
    /\ UNCHANGED outsideRepo
    /\ rp[c].pc = "enter"
    /\ LET e == ExecuteEnter(cb, now, settings) IN
         /\ cb' = e.cb
         /\ rp' = [rp EXCEPT ![c] =
              IF e.err # NoErr
              THEN [@ EXCEPT !.rejected = TRUE, !.pc = "returned",
                        !.ret = RepoGetReturn([found |-> FALSE, val |-> ZeroUser,
                                               err |-> ExecuteReject(e.err).err])]
              ELSE [@ EXCEPT !.pc = "attempt", !.gen = e.generation]]
    /\ UNCHANGED <<rt, nrp>>

\* goretry.Do, top of the loop: a done context ends the loop with ctx.Err();
\* otherwise one run of the closure inside r.retry.Execute.
RpAttempt(c) ==
    /\ UNCHANGED outsideRepo
    /\ rp[c].pc = "attempt"
    /\ IF DoLoopTop(rp[c].ctxDone) = "return"
       THEN rp' = [rp EXCEPT ![c].res = Canceled, ![c].pc = "leave"]
       ELSE LET g == RepoStatement(c) IN
            rp' = [rp EXCEPT ![c].attempts = @ + 1, ![c].res = g,
                      ![c].pc = IF g.err # NoErr /\ Retryable(rcfg.retryableFn, g.err)
                                THEN "next" ELSE "leave"]
    /\ UNCHANGED <<cb, rt, nrp>>

\* goretry.Do after a retryable error: the shared backoff grants a retry or
\* stops, and a context found done before the wait ends the loop.
RpNext(c) ==
    /\ UNCHANGED outsideRepo
    /\ rp[c].pc = "next"
    /\ LET b == BackoffNext(rt, rcfg.maxRetries, rcfg.interval) IN
         /\ rt' = b.rt
         /\ rp' = [rp EXCEPT ![c] =
              IF b.stop THEN [@ EXCEPT !.pc = "leave"]
              ELSE IF @.ctxDone THEN [@ EXCEPT !.res = Canceled, !.pc = "leave"]
              ELSE [@ EXCEPT !.pc = "wait"]]
    /\ UNCHANGED <<cb, nrp>>

\* The backoff's wait is over, or the context was done first.
RpWake(c) ==
    /\ UNCHANGED outsideRepo
    /\ rp[c].pc = "wait"
    /\ \E w \in DoWait(rp[c].ctxDone) :
         rp' = [rp EXCEPT ![c] =
              IF w = "loop" THEN [@ EXCEPT !.pc = "attempt"]
              ELSE [@ EXCEPT !.res = Canceled, !.pc = "leave"]]
    /\ UNCHANGED <<cb, rt, nrp>>

\* r.cb.Execute records the outcome and Get returns.
RpLeave(c) ==
    /\ UNCHANGED outsideRepo
    /\ rp[c].pc = "leave"
    /\ LET x == ExecuteLeave(cb, rp[c].gen, rp[c].res, now, settings) IN
         /\ cb' = x.cb
         /\ rp' = [rp EXCEPT ![c].ret = RepoGetReturn(x.ret), ![c].pc = "returned"]
    /\ UNCHANGED <<rt, nrp>>

NextRepo ==
    \/ \E c \in Callers : RpBegin(c)
    \/ \E c \in Callers : RpCancel(c)
    \/ \E c \in Callers : RpEnter(c)
    \/ \E c \in Callers : RpAttempt(c)
    \/ \E c \in Callers : RpNext(c)
    \/ \E c \in Callers : RpWake(c)
    \/ \E c \in Callers : RpLeave(c)

SpecRepo == InitRepo /\ [][NextRepo]_vars

Missing(c) == ~\E x \in RepoRows : x.Id = rp[c].id

\* C30: a Get of an id without a row, its context not cancelled, on a
\* repository built with
\* notFoundAsError = false, makes one storage attempt and returns a nil
\* entity and a nil error; on a repository built with notFoundAsError = true
\* it returns a nil entity and a non-nil error.
C30_NotFoundByFlag ==
    \A c \in Callers :
        (rp[c].pc # "idle" /\ rp[c].method = "Get" /\ ~rp[c].ctxDone /\ Missing(c)) =>
            /\ (~rp[c].notFoundAsError) => rp[c].attempts <= 1
            /\ (~rp[c].notFoundAsError /\ rp[c].pc = "returned" /\ ~rp[c].rejected) =>
                  /\ rp[c].attempts = 1
                  /\ rp[c].ret = [val |-> ZeroUser, err |-> NoErr]
            /\ (rp[c].notFoundAsError /\ rp[c].pc = "returned") =>
                  /\ rp[c].ret.val = ZeroUser
                  /\ rp[c].ret.err # NoErr

\* Of two Gets of a missing id, the one on the repository built with false
\* returned (nil, nil) after one attempt and the other the not-found error.
C30_Witness ==
    \E c, d \in Callers :
        /\ rp[c].method = "Get" /\ ~rp[c].ctxDone
        /\ Missing(c) /\ ~rp[c].notFoundAsError /\ rp[c].pc = "returned"
        /\ rp[c].attempts = 1 /\ rp[c].ret = [val |-> ZeroUser, err |-> NoErr]
        /\ rp[d].method = "Get" /\ ~rp[d].ctxDone
        /\ Missing(d) /\ rp[d].notFoundAsError /\ rp[d].pc = "returned"
        /\ rp[d].attempts >= 1 /\ rp[d].ret = [val |-> ZeroUser, err |-> ErrRecordNotFound]

\* ------------------------------------------------------------------- SpecDb
\* Storage calls run by the retry executor InitializeDatabase builds:
\* NewRetry(3, ...) with the predicate over PostgreSQL and network errors,
\* shared by concurrent callers.
InitDb == InitOps

\* retry.Execute(ctx, fn) is called.
DbBegin(c) ==
    /\ UNCHANGED outsideDb
    /\ dcalls[c].pc \in {"idle", "returned"}
    /\ ndcalls < MaxDbCalls
    /\ dcalls' = [dcalls EXCEPT ![c] = [IdleDbCall EXCEPT !.pc = "attempt"]]
    /\ ndcalls' = ndcalls + 1
    /\ UNCHANGED drt

\* fn runs: nil ends the call, an error the predicate rejects is returned as
\* it is, any other error is handed to goretry.Do as retryable.
DbAttempt(c) ==
    /\ UNCHANGED outsideDb
    /\ dcalls[c].pc = "attempt"
    /\ \E e \in DbErrs \cup {NoDbErr} :
         dcalls' = [dcalls EXCEPT ![c] =
            IF e = NoDbErr
            THEN [@ EXCEPT !.n = @ + 1, !.last = e, !.ret = e, !.pc = "returned"]
            ELSE IF ~DbRetryable(e)
            THEN [@ EXCEPT !.n = @ + 1, !.fails = @ + 1, !.permanent = @ + 1,
                           !.last = e, !.ret = e, !.pc = "returned"]
            ELSE [@ EXCEPT !.n = @ + 1, !.fails = @ + 1, !.last = e, !.pc = "next"]]
    /\ UNCHANGED <<drt, ndcalls>>

\* goretry.Do asks the backoff: a retry is granted or the error is returned.
DbNext(c) ==
    /\ UNCHANGED outsideDb
    /\ dcalls[c].pc = "next"
    /\ LET b == BackoffNext(drt, DbMaxRetries, 1) IN
         /\ drt' = b.rt
         /\ dcalls' = [dcalls EXCEPT ![c] =
              IF b.stop THEN [@ EXCEPT !.ret = dcalls[c].last, !.pc = "returned"]
              ELSE [@ EXCEPT !.pc = "wait"]]
    /\ UNCHANGED ndcalls

\* The backoff's wait is over.
DbWake(c) ==
    /\ UNCHANGED outsideDb
    /\ dcalls[c].pc = "wait"
    /\ dcalls' = [dcalls EXCEPT ![c].pc = "attempt"]
    /\ UNCHANGED <<drt, ndcalls>>

NextDb ==
    \/ \E c \in Callers : DbBegin(c)
    \/ \E c \in Callers : DbAttempt(c)
    \/ \E c \in Callers : DbNext(c)
    \/ \E c \in Callers : DbWake(c)

SpecDb == InitDb /\ [][NextDb]_vars

\* The transient infrastructure errors: connection failures, serialization
\* failures, deadlock conflicts and network operation errors.
TransientInfra(e) ==
    \/ /\ e.kind \in {"pg", "wrapped pg"}
       /\ SqlStateName(e.code) \in
            {"connection_failure", "sqlclient_unable_to_establish_sqlconnection",
             "sqlserver_rejected_establishment_of_sqlconnection",
             "serialization_failure", "deadlock_detected"}
    \/ e.kind \in {"net", "wrapped net"}

MaxRpcs == 3

ErrNotFound == "not found"
ErrInvalidArgument == "invalid argument"

HandlerErrs == {<<ErrNotFound>>, <<"user lookup", ErrNotFound>>,
                <<ErrInvalidArgument>>, <<"email is required", ErrInvalidArgument>>,
                <<"connection refused">>, <<"create user", "connection refused">>,
                <<"context canceled">>}

\* what the wrapped handler can do: return a response, return an error (with
\* or without a response next to it), or panic
HandlerOutcomes ==
    {[panic |-> FALSE, resp |-> r, err |-> <<>>] : r \in {"ok", "user"}}
    \cup {[panic |-> FALSE, resp |-> r, err |-> e] : r \in {"nil", "ok"}, e \in HandlerErrs}
    \cup {[panic |-> TRUE, resp |-> "nil", err |-> <<>>]}

\* errors.Is(err, target)
ErrorsIs(err, target) == \E i \in 1..Len(err) : err[i] = target

\* the interceptor with a default branch that hands the error text to the client
\* and keeps it out of the log
ErrorInterceptorLeaky(o) ==
    IF o.panic
    THEN [resp |-> "nil", code |-> "Internal", msg |-> <<"internal server error">>, logged |-> 1]
    ELSE IF o.err = <<>>
    THEN [resp |-> o.resp, code |-> "OK", msg |-> <<>>, logged |-> 0]
    ELSE IF ErrorsIs(o.err, ErrNotFound)
    THEN [resp |-> "nil", code |-> "NotFound", msg |-> o.err, logged |-> 0]
    ELSE IF ErrorsIs(o.err, ErrInvalidArgument)
    THEN [resp |-> "nil", code |-> "InvalidArgument", msg |-> o.err, logged |-> 0]
    ELSE [resp |-> "nil", code |-> "Internal", msg |-> o.err, logged |-> 0]

\* ErrorInterceptor: what the RPC returns and how many log.Error calls it made
ErrorInterceptor(o) ==
    IF o.panic
    THEN [resp |-> "nil", code |-> "Internal", msg |-> <<"internal server error">>, logged |-> 1]
    ELSE IF o.err = <<>>
    THEN [resp |-> o.resp, code |-> "OK", msg |-> <<>>, logged |-> 0]
    ELSE IF ErrorsIs(o.err, ErrNotFound)
    THEN [resp |-> "nil", code |-> "NotFound", msg |-> o.err, logged |-> 0]
    ELSE IF ErrorsIs(o.err, ErrInvalidArgument)
    THEN [resp |-> "nil", code |-> "InvalidArgument", msg |-> o.err, logged |-> 0]
    ELSE [resp |-> "nil", code |-> "Internal", msg |-> <<"internal server error">>, logged |-> 1]

InitIcpt == InitOps

\* an RPC arrives and the interceptor calls the handler
IcBegin(c) ==
    /\ UNCHANGED outsideIcpt
    /\ hcalls[c].pc \in {"idle", "returned"}
    /\ nhcalls < MaxRpcs
    /\ nhcalls' = nhcalls + 1
    /\ hcalls' = [hcalls EXCEPT ![c] = [IdleRpc EXCEPT !.pc = "handler"]]
    /\ UNCHANGED errorCalls

\* the handler returns or panics
IcHandler(c) ==
    /\ UNCHANGED outsideIcpt
    /\ hcalls[c].pc = "handler"
    /\ \E o \in HandlerOutcomes :
           hcalls' = [hcalls EXCEPT ![c].pc = "handled", ![c].outcome = o]
    /\ UNCHANGED <<nhcalls, errorCalls>>

\* the interceptor maps the outcome, logs where the code logs, and returns
IcReturn(c) ==
    /\ UNCHANGED outsideIcpt
    /\ hcalls[c].pc = "handled"
    /\ LET r == ErrorInterceptor(hcalls[c].outcome)
       IN /\ hcalls' = [hcalls EXCEPT ![c].pc = "returned",
                                      ![c].ret = [resp |-> r.resp, code |-> r.code, msg |-> r.msg],
                                      ![c].logged = r.logged]
          /\ errorCalls' = errorCalls + r.logged
    /\ UNCHANGED nhcalls

NextIcpt == \E c \in Callers : IcBegin(c) \/ IcHandler(c) \/ IcReturn(c)

SpecIcpt == InitIcpt /\ [][NextIcpt]_vars

\* C32: the interceptor maps every handler outcome: with a nil error the
\* response passes unchanged; an error that is or wraps ErrNotFound becomes
\* status NotFound, one that is or wraps ErrInvalidArgument becomes
\* InvalidArgument, both carrying the error's own text; any other error becomes
\* Internal with the fixed message "internal server error" and is logged exactly
\* once, while the first three outcomes are never logged.
C32_InterceptorMapsOutcomes ==
    \A c \in Callers :
        hcalls[c].pc = "returned" /\ ~hcalls[c].outcome.panic =>
            LET o == hcalls[c].outcome
                r == hcalls[c].ret
            IN /\ o.err = <<>> =>
                      /\ r = [resp |-> o.resp, code |-> "OK", msg |-> <<>>]
                      /\ hcalls[c].logged = 0
               /\ ErrorsIs(o.err, ErrNotFound) =>
                      /\ r = [resp |-> "nil", code |-> "NotFound", msg |-> o.err]
                      /\ hcalls[c].logged = 0
               /\ ErrorsIs(o.err, ErrInvalidArgument) =>
                      /\ r = [resp |-> "nil", code |-> "InvalidArgument", msg |-> o.err]
                      /\ hcalls[c].logged = 0
               /\ (/\ o.err # <<>>
                   /\ ~ErrorsIs(o.err, ErrNotFound)
                   /\ ~ErrorsIs(o.err, ErrInvalidArgument)) =>
                      /\ r = [resp |-> "nil", code |-> "Internal",
                              msg |-> <<"internal server error">>]
                      /\ hcalls[c].logged = 1

C32_Witness ==
    /\ errorCalls = 1
    /\ \E c, d \in Callers :
           /\ hcalls[c].pc = "returned"
           /\ hcalls[c].outcome.err = <<"create user", "connection refused">>
           /\ hcalls[c].ret.code = "Internal"
           /\ hcalls[d].pc = "returned"
           /\ hcalls[d].outcome.err = <<"user lookup", ErrNotFound>>
           /\ hcalls[d].ret.code = "NotFound"

\* ------------------------------------------------------ LedgerRepository
\* The table main.ledgers under Insert and Get. Amount and CreatedAt take no
\* part in a query and are left out of the rows.
MaxLedgerRows == 2

LedgerIds == 1..2
LedgerUserIds == {10, 20}
TransactionTypes == {"deposit", "withdraw"}
Tokens == {"ETH", "BTC"}

LedgerRowSet ==
    [Id : LedgerIds, UserId : LedgerUserIds, TransactionType : TransactionTypes,
     Token : Tokens]

\* the queries: each field zero or a value some rows have and others do not;
\* the id may also be one no row has
GetQueries ==
    [IdEq : {0, 1, 3}, UserIdEq : {0, 10},
     TransactionTypeEq : {"", "deposit"}, TokenEq : {"", "ETH"}]

\* a Get that leaves the token filter out
LedgerFindSkipsToken(rows, q) ==
    LET d1 == IF q.IdEq # 0 THEN {x \in rows : x.Id = q.IdEq} ELSE rows
        d2 == IF q.UserIdEq # 0 THEN {x \in d1 : x.UserId = q.UserIdEq} ELSE d1
        d3 == IF q.TransactionTypeEq # ""
              THEN {x \in d2 : x.TransactionType = q.TransactionTypeEq} ELSE d2
    IN d3

\* the closure of Get: one Where per non-zero field of the query, then Find
LedgerFind(rows, q) ==
    LET d1 == IF q.IdEq # 0 THEN {x \in rows : x.Id = q.IdEq} ELSE rows
        d2 == IF q.UserIdEq # 0 THEN {x \in d1 : x.UserId = q.UserIdEq} ELSE d1
        d3 == IF q.TransactionTypeEq # ""
              THEN {x \in d2 : x.TransactionType = q.TransactionTypeEq} ELSE d2
        d4 == IF q.TokenEq # "" THEN {x \in d3 : x.Token = q.TokenEq} ELSE d3
    IN d4

\* LedgerRepositoryImpl.Get: the slice built from the rows found, or nil and
\* the error of Find
LedgerGet(rows, q, findErr) ==
    IF findErr # NoErr THEN [val |-> NilLedgers, err |-> findErr]
    ELSE [val |-> Ledgers(LedgerFind(rows, q)), err |-> NoErr]

InitLedger == InitOps

\* LedgerRepositoryImpl.Insert: Create(&entity); id is the primary key
LgInsert ==
    /\ UNCHANGED outsideLedger
    /\ Cardinality(ledgers) < MaxLedgerRows
    /\ \E row \in LedgerRowSet :
         IF Conflicts(ledgers, row)
         THEN lins' = ErrUnique /\ ledgers' = ledgers
         ELSE lins' = NoErr /\ ledgers' = ledgers \cup {row}
    /\ UNCHANGED lget

\* LedgerRepositoryImpl.Get with any query; the statement may fail. The call
\* keeps the table it read as history.
LgGet ==
    /\ UNCHANGED outsideLedger
    /\ \E q \in GetQueries, e \in {NoErr, ErrStore} :
         lget' = [done |-> TRUE, query |-> q, table |-> ledgers,
                  ret |-> LedgerGet(ledgers, q, e)]
    /\ UNCHANGED <<ledgers, lins>>

NextLedger == LgInsert \/ LgGet

SpecLedger == InitLedger /\ [][NextLedger]_vars

\* the rows that satisfy every condition the query sets
Matching(rows, q) ==
    {x \in rows :
        /\ q.IdEq # 0 => x.Id = q.IdEq
        /\ q.UserIdEq # 0 => x.UserId = q.UserIdEq
        /\ q.TransactionTypeEq # "" => x.TransactionType = q.TransactionTypeEq
        /\ q.TokenEq # "" => x.Token = q.TokenEq}

\* C35: LedgerRepository.Get whose statement did not fail returns, with no
\* error, exactly the rows that satisfy all the conditions of the non-zero
\* query fields: all rows for the all-zero query, and an empty result (not
\* nil) when no row matches.
C35_GetFilters ==
    (lget.done /\ lget.ret.err = NoErr) =>
        /\ ~lget.ret.val.nil
        /\ lget.ret.val.rows = Matching(lget.table, lget.query)
        /\ lget.query = ZeroQuery => lget.ret.val.rows = lget.table
        /\ (\A x \in lget.table : x \notin Matching({x}, lget.query)) =>
               lget.ret.val = Ledgers({})

\* Two rows that differ only in id and token; a query on user and token
\* returned one of them.
C35_Witness ==
    /\ lget.done /\ lget.ret.err = NoErr
    /\ lget.query = [IdEq |-> 0, UserIdEq |-> 10, TransactionTypeEq |-> "", TokenEq |-> "ETH"]
    /\ lget.table = {[Id |-> 1, UserId |-> 10, TransactionType |-> "deposit", Token |-> "ETH"],
                     [Id |-> 2, UserId |-> 10, TransactionType |-> "deposit", Token |-> "BTC"]}
    /\ lget.ret.val.rows = {[Id |-> 1, UserId |-> 10, TransactionType |-> "deposit", Token |-> "ETH"]}

\* ---------------------------------------------------------------- SpecTerm
\* Termination. A behaviour is either one of calls of the retry executor
\* (built with one retry, and the predicate) or one of service operations
\* whose repository calls return. Every goroutine that can take a step
\* eventually takes one: an invocation of fn returns, the backoff's timer
\* fires, a repository call, Commit or Abort returns. Arrivals of calls and
\* cancellations are left to the callers.
InitTerm ==
    /\ InitRetry
    /\ rcfg.maxRetries = 1
    /\ rcfg.retryableFn = "predicate"

NextTerm ==
    \/ nops = 0 /\ NextRetry
    \/ nrcalls = 0 /\ NextOps

RetrySteps(c) == RtAttempt(c) \/ RtNext(c) \/ RtWake(c)

OpSteps(c) ==
    \/ OpNew(c) \/ OpRecGet(c) \/ OpUserInsert(c) \/ OpUserGet(c)
    \/ OpRecInsert(c) \/ OpRead(c) \/ OpCommit(c) \/ OpAbort(c)

SpecTerm ==
    /\ InitTerm
    /\ [][NextTerm]_vars
    /\ \A c \in Callers : WF_vars(RetrySteps(c)) /\ WF_vars(OpSteps(c))

\* C39: every call of the retry executor returns, after at most
\* 1 + maxRetries invocations of fn; and every service operation returns,
\* having invoked exactly one of Commit and Abort on the UnitOfWork it opened.
C39_EverythingReturns ==
    /\ [](\A c \in Callers : rcalls[c].n <= 1 + rcfg.maxRetries)
    /\ \A c \in Callers :
         (rcalls[c].pc \notin {"idle", "returned"}) ~> (rcalls[c].pc = "returned")
    /\ [](\A c \in Callers :
            (ops[c].pc = "done" /\ ops[c].uow) => ops[c].commits + ops[c].aborts = 1)
    /\ \A c \in Callers :
         (ops[c].pc \notin {"idle", "done"}) ~> (ops[c].pc = "done")

\* A call whose two invocations both failed with a retryable error has
\* returned that error, its context live.
C39_Witness ==
    \E c \in Callers :
        /\ rcalls[c].pc = "returned"
        /\ ~rcalls[c].ctxDone
        /\ rcalls[c].n = 1 + rcfg.maxRetries
        /\ rcalls[c].fails = rcalls[c].n
        /\ rcalls[c].allRetryable
        /\ rcalls[c].ret \in TransientErrors

\* --------------------------------------------------------------- SpecHealth
\* main of the gRPC server from health.NewServer() to its return: the health
\* status under the start-up sequence, the signal that cancels the root
\* context, the periodic ping goroutine and the shutdown sequence.
\* healthServer.Shutdown() is never called, so SetServingStatus always takes
\* effect.
MaxTicks == 2

\* sqlDB.PingContext(ctx): nil when the database answers and ctx is live
PingContext(dbUp, ctxDone) == dbUp /\ ~ctxDone

\* health.NewServer() has registered service "" as SERVING
InitHealth == InitOps

\* healthServer.SetServingStatus("", NOT_SERVING) before the first ping
HmSetNotServing ==
    /\ UNCHANGED outsideHealth
    /\ hmain = "start"
    /\ hstatus' = "NOT_SERVING"
    /\ hmain' = "ping"
    /\ UNCHANGED <<hping, hctxDone, hdbUp, hticks, hshut>>

\* the first ping: SERVING when it succeeds, no change otherwise
HmInitialPing ==
    /\ UNCHANGED outsideHealth
    /\ hmain = "ping"
    /\ hstatus' = IF PingContext(hdbUp, hctxDone) THEN "SERVING" ELSE hstatus
    /\ hmain' = "go"
    /\ UNCHANGED <<hping, hctxDone, hdbUp, hticks, hshut>>

\* go func() { ticker ... }(): the ping goroutine starts; main goes on to
\* <-ctx.Done()
HmGo ==
    /\ UNCHANGED outsideHealth
    /\ hmain = "go"
    /\ hping' = [hping EXCEPT !.pc = "select"]
    /\ hmain' = "wait"
    /\ UNCHANGED <<hstatus, hctxDone, hdbUp, hticks, hshut>>

\* SIGINT or SIGTERM arrives: the signal goroutine calls cancel()
HSignal ==
    /\ UNCHANGED outsideHealth
    /\ hmain # "exited"
    /\ ~hctxDone
    /\ hctxDone' = TRUE
    /\ UNCHANGED <<hstatus, hmain, hping, hdbUp, hticks, hshut>>

\* the database goes down or comes back
HDbFlip ==
    /\ UNCHANGED outsideHealth
    /\ hmain # "exited"
    /\ hdbUp' = ~hdbUp
    /\ UNCHANGED <<hstatus, hmain, hping, hctxDone, hticks, hshut>>

\* main after <-ctx.Done(): SetServingStatus("", NOT_SERVING)
HmShutdown ==
    /\ UNCHANGED outsideHealth
    /\ hmain = "wait"
    /\ hctxDone
    /\ hstatus' = "NOT_SERVING"
    /\ hshut' = TRUE
    /\ hmain' = "stopping"
    /\ UNCHANGED <<hping, hctxDone, hdbUp, hticks>>

\* server.GracefulStop() returns and main runs to its end
HmGracefulStop ==
    /\ UNCHANGED outsideHealth
    /\ hmain = "stopping"
    /\ hmain' = "exited"
    /\ UNCHANGED <<hstatus, hping, hctxDone, hdbUp, hticks, hshut>>

\* the goroutine's select takes case <-ticker.C (select may take it also when
\* ctx.Done() is ready)
HpTick ==
    /\ UNCHANGED outsideHealth
    /\ hmain # "exited"
    /\ hping.pc = "select"
    /\ hticks < MaxTicks
    /\ hticks' = hticks + 1
    /\ hping' = [hping EXCEPT !.pc = "ping"]
    /\ UNCHANGED <<hstatus, hmain, hctxDone, hdbUp, hshut>>

\* the goroutine's select takes case <-ctx.Done(): return
HpDone ==
    /\ UNCHANGED outsideHealth
    /\ hmain # "exited"
    /\ hping.pc = "select"
    /\ hctxDone
    /\ hping' = [hping EXCEPT !.pc = "returned"]
    /\ UNCHANGED <<hstatus, hmain, hctxDone, hdbUp, hticks, hshut>>

\* dbs.DB.DB() and sqlDB.PingContext(ctx) in the goroutine
HpPing ==
    /\ UNCHANGED outsideHealth
    /\ hmain # "exited"
    /\ hping.pc = "ping"
    /\ hping' = [pc |-> "set", ok |-> PingContext(hdbUp, hctxDone)]
    /\ UNCHANGED <<hstatus, hmain, hctxDone, hdbUp, hticks, hshut>>

\* the goroutine's SetServingStatus with the outcome of its ping
HpSet ==
    /\ UNCHANGED outsideHealth
    /\ hmain # "exited"
    /\ hping.pc = "set"
    /\ hstatus' = IF hping.ok THEN "SERVING" ELSE "NOT_SERVING"
    /\ hping' = [hping EXCEPT !.pc = "select"]
    /\ UNCHANGED <<hmain, hctxDone, hdbUp, hticks, hshut>>

NextHealth ==
    \/ HmSetNotServing \/ HmInitialPing \/ HmGo \/ HSignal \/ HDbFlip
    \/ HmShutdown \/ HmGracefulStop \/ HpTick \/ HpDone \/ HpPing \/ HpSet

SpecHealth == InitHealth /\ [][NextHealth]_vars

\* C40: once main has set the health status to NOT_SERVING on shutdown, the
\* status is NOT_SERVING in every later state.
C40_NeverServingAgain == hshut => hstatus = "NOT_SERVING"

\* ------------------------------------------------ claims on the service
SameKey(k) == {r \in Requests : req[r].pc # "idle" /\ req[r].key = k}
Winner(r) == tx[r].status = "committed" /\ tx[r].records # {}
UsersOf(k) == {u \in db.users : \E r \in SameKey(k) : u.Id = req[r].user.Id}
RecordsOf(k) == {x \in db.records : x.Id = k}
Finished(k) == SameKey(k) # {} /\ \A r \in SameKey(k) : req[r].pc = "done"
GotCached(r) ==
    /\ req[r].ret.err = NoErr
    /\ first[req[r].key] # ZeroUser
    /\ req[r].ret.val = first[req[r].key]

C3_RecordIffUser ==
    /\ \A r \in Requests :
         (\E x \in db.records : x.Id = req[r].key /\ x.ReferenceId = req[r].user.Id)
            <=> (\E u \in db.users : u.Id = req[r].user.Id /\ req[r].pc # "idle")
    /\ \A x \in db.records : \E u \in db.users : u.Id = x.ReferenceId
    /\ \A u \in db.users : \E x \in db.records : x.ReferenceId = u.Id

\* One request has committed its user row and record, another was aborted
\* after inserting its user row, and a third one's commit failed.
C3_Witness ==
    \E r1, r2, r3 \in Requests :
        /\ Winner(r1) /\ req[r1].pc = "done"
        /\ req[r2].pc = "done" /\ req[r2].recInserts = 1
        /\ req[r2].ret.err = ErrUnique /\ tx[r2].status = "rolledback"
        /\ req[r3].pc = "done" /\ req[r3].recInserts = 1 /\ req[r3].ret.err = ErrCommit
        /\ Cardinality(db.users) = 1 /\ Cardinality(db.records) = 1

\* C4: a request that begins once the record of its id is committed, or whose
\* lookup finds the record, never invokes its fn, never inserts a record or a
\* row, and the value its gate returns is the result committed with the record.
C4_LaterReplays ==
    \A r \in Requests :
        (req[r].key \in req[r].atStart \/ req[r].lookup = "hit") =>
            /\ req[r].fnCalls = 0 /\ req[r].recInserts = 0
            /\ tx[r].users = {} /\ tx[r].records = {}
            /\ req[r].lookup \in {"none", "error", "hit"}
            /\ (req[r].pc \in {"commit", "done"} /\ req[r].ret.err = NoErr)
                  => GotCached(r)

\* A request begun after the record was committed has returned the first
\* result, which is not the user it was called with.
C4_Witness ==
    \E r \in Requests :
        /\ req[r].key \in req[r].atStart
        /\ req[r].pc = "done" /\ GotCached(r)
        /\ req[r].ret.val.Id # req[r].user.Id
        /\ req[r].ret.val.Email # req[r].user.Email
        /\ req[r].fnCalls = 0

\* C5: a request whose fn failed returns that error from the gate with no
\* result, has attempted no record insert and leaves no record; and a request
\* whose lookup found no record has invoked its fn.
C5_FnErrorNoRecord ==
    \A r \in Requests :
        /\ req[r].fnErr # NoErr =>
             /\ req[r].pc \in {"abort", "done"}
             /\ req[r].ret = [val |-> ZeroUser, err |-> req[r].fnErr]
             /\ req[r].recInserts = 0
             /\ tx[r].records = {}
             /\ ~\E x \in db.records : x.ReferenceId = req[r].user.Id
        /\ req[r].lookup = "miss" => req[r].fnCalls = 1

\* After a request's fn failed and it returned, a later request with the same
\* id found no record, invoked its fn and succeeded.
C5_Witness ==
    \E r \in Requests :
        /\ req[r].key \in req[r].failedAtStart
        /\ req[r].lookup = "miss" /\ req[r].fnCalls = 1
        /\ req[r].pc = "done" /\ Winner(r)
        /\ RecordsOf(req[r].key) # {}

\* C21: a committed idempotency record is never updated or deleted, and at
\* most one record is ever committed per id: every step keeps each committed
\* record as it is (requestType, referenceId and responseData included) and
\* leaves the committed records with pairwise distinct ids.
C21_RecordsImmutable ==
    [][/\ \A x \in db.records : x \in db'.records
       /\ \A x, y \in db'.records : x.Id = y.Id => x = y]_vars

\* A record is committed and two later requests of its id have finished, one
\* whose record insert was refused and one served from the record.
C21_Witness ==
    \E r1, r2, r3 \in Requests :
        /\ Winner(r1) /\ req[r1].pc = "done"
        /\ req[r2].key = req[r1].key /\ req[r2].pc = "done"
        /\ req[r2].recInserts = 1 /\ req[r2].ret.err = ErrUnique
        /\ req[r3].key = req[r1].key /\ req[r3].pc = "done" /\ req[r3].lookup = "hit"
        /\ Cardinality(RecordsOf(req[r1].key)) = 1

\* C29: a repository call entered while the breaker is Open returns the
\* breaker-open error with no storage attempt: the retry executor is not
\* entered (no attempt, no retry consumed, no statement run) and the service
\* gets that error from the call, whichever repository method it was.
C29_OpenRejectsRepositoryCalls ==
    [][\A r \in Requests :
          (/\ req[r].pc = "call" /\ req[r].stage = "enter"
           /\ State(cb, now, settings) = "Open"
           /\ req'[r] # req[r]) =>
             /\ req'[r].attempts = req[r].attempts
             /\ req'[r].stage # "attempt"
             /\ req'[r].rejected
             /\ req'[r].pc = "abort"
             /\ req'[r].ret = [val |-> ZeroUser, err |-> ErrOpenState]
             /\ rt' = rt /\ db' = db /\ tx' = tx /\ faults' = faults]_vars

\* With the breaker Open, one request was rejected at its first repository
\* call and another at a call inside fn, after its lookup had gone through.
C29_Witness ==
    /\ State(cb, now, settings) = "Open"
    /\ \E r1, r2 \in Requests :
        /\ req[r1].rejected /\ req[r1].attempts = 0 /\ req[r1].lookup = "error"
        /\ req[r1].ret.err = ErrOpenState
        /\ req[r2].rejected /\ req[r2].attempts >= 1 /\ req[r2].fnCalls = 1
        /\ req[r2].ret.err = ErrOpenState

\* C2: every Execute call on the shared instance whose attempts all failed
\* with retryable errors, and whose context was not cancelled, has invoked fn
\* exactly 1 + maxRetries times when it returns, whatever earlier or concurrent
\* calls have consumed.
C2_FullBudgetEveryCall ==
    \A c \in Callers :
        (rcalls[c].pc = "returned" /\ rcalls[c].allRetryable /\ ~rcalls[c].ctxDone)
            => rcalls[c].n = 1 + rcfg.maxRetries

\* C11: a call that has returned without its context being cancelled, after
\* failures that were all retryable and at most maxRetries in number, has
\* returned success, after exactly one invocation more than it had failures.
C11_SucceedsAfterKFailures ==
    \A c \in Callers :
        (/\ rcalls[c].pc = "returned"
         /\ ~rcalls[c].ctxDone
         /\ ~rcalls[c].sawFatal
         /\ rcalls[c].fails <= rcfg.maxRetries)
            => rcalls[c].ret = NoErr /\ rcalls[c].n = rcalls[c].fails + 1

\* C12: when the predicate is set and an attempt fails with an error it
\* rejects, the call has returned exactly that error and the operation has
\* been invoked once per failure: no invocation follows the rejected error.
C12_NonRetryableStops ==
    \A c \in Callers :
        (rcfg.retryableFn = "predicate" /\ rcalls[c].last = ErrFatal) =>
            /\ rcalls[c].pc = "returned"
            /\ rcalls[c].ret = ErrFatal
            /\ rcalls[c].n = rcalls[c].fails

\* A call has returned the rejected error of its second attempt, the first
\* having failed with a retryable error.
C12_Witness ==
    \E c \in Callers :
        /\ rcfg.retryableFn = "predicate"
        /\ rcalls[c].pc = "returned" /\ rcalls[c].ret = ErrFatal
        /\ rcalls[c].n = 2 /\ rcalls[c].prev \in TransientErrors

\* C13: a call that has returned without its context being cancelled, every
\* attempt having failed with a retryable error, has returned the error of its
\* last attempt, and that attempt was number 1 + maxRetries.
C13_LastErrorAfterAllRetries ==
    \A c \in Callers :
        (rcalls[c].pc = "returned" /\ rcalls[c].allRetryable /\ ~rcalls[c].ctxDone) =>
            /\ rcalls[c].ret = rcalls[c].last
            /\ rcalls[c].n = rcfg.maxRetries + 1

\* C14: once the context is cancelled while a call waits between two
\* attempts, the operation is not invoked again by that call, and what the call
\* returns is the cancellation error.
C14_CancelledWaitStops ==
    \A c \in Callers :
        rcalls[c].pcAtCancel = "wait" =>
            /\ rcalls[c].n = rcalls[c].nAtCancel
            /\ rcalls[c].pc = "returned" => rcalls[c].ret = ErrCanceled

\* A call cancelled during its wait has returned the cancellation error.
C14_Witness ==
    \E c \in Callers :
        /\ rcalls[c].pcAtCancel = "wait"
        /\ rcalls[c].pc = "returned" /\ rcalls[c].ret = ErrCanceled
        /\ rcalls[c].n >= 1

\* C15: every call that has returned has invoked the operation at least once,
\* whatever the configuration and whatever the context was when it was called.
C15_FirstAttemptAlwaysRuns ==
    \A c \in Callers : rcalls[c].pc = "returned" => rcalls[c].n >= 1

\* ------------------------------------------------- claims on the breaker
\* C6: once a failure in Closed has made the trip predicate true the breaker
\* is Open with its expiry one timeout ahead, it stays Open until the timeout
\* has elapsed since openedAt, and every Execute call entered in that window
\* returns a breaker error and the zero value without invoking its operation.
C6_OpenRejects ==
    /\ (openedAt # 0 /\ now <= openedAt + settings.timeout) => cb.state = "StateOpen"
    /\ \A c \in Callers :
         /\ calls[c].tripped =>
              /\ calls[c].after = "Open"
              /\ calls[c].expiryAfter = calls[c].retAt + settings.timeout
         /\ calls[c].inWindow =>
              /\ calls[c].pc = "returned"
              /\ calls[c].ret.err \in BreakerErrors
              /\ calls[c].ret.val = Nil
              /\ calls[c].invoked = 0

C6_Witness ==
    \E c, d \in Callers :
        /\ calls[c].tripped
        /\ calls[d].inWindow /\ calls[d].pc = "returned"
        /\ calls[d].ret.err = ErrOpenState /\ calls[d].invoked = 0

\* C7: a new breaker is Closed, and as long as no run of consecutive failures
\* has reached the trip threshold the breaker is Closed, every Execute call
\* was admitted in Closed, and every call past admission invoked its operation
\* exactly once.
C7_StaysClosed ==
    maxFailRun < settings.threshold =>
        /\ State(cb, now, settings) = "Closed"
        /\ \A c \in Callers : calls[c].pc # "idle" =>
             /\ calls[c].saw = "Closed"
             /\ calls[c].ret.err \notin BreakerErrors
             /\ calls[c].pc \in {"running", "returned"} => calls[c].invoked = 1

C7_Witness ==
    /\ maxFailRun >= 1 /\ maxFailRun < settings.threshold
    /\ cb.counts.TotalFailures >= 2
    /\ \E c \in Callers : calls[c].pc = "returned" /\ calls[c].invoked = 1

\* C8: the first Execute call after the Open timeout has elapsed finds the
\* breaker HalfOpen and is admitted; when that trial returns, a success has
\* closed the breaker and a failure has reopened it with the expiry restarted
\* from the time of the failure.
C8_HalfOpenTrial ==
    \A c \in Callers : (calls[c].first /\ calls[c].pc # "idle") =>
        /\ calls[c].saw = "HalfOpen"
        /\ calls[c].ret.err \notin BreakerErrors
        /\ calls[c].pc = "returned" =>
             IF calls[c].op.err = NoErr
             THEN calls[c].after = "Closed"
             ELSE /\ calls[c].after = "Open"
                  /\ calls[c].expiryAfter = calls[c].retAt + settings.timeout
                  /\ openedAt >= calls[c].retAt

C8_Witness ==
    \E c, d \in Callers :
        /\ calls[c].first /\ calls[c].pc = "returned"
        /\ calls[c].op.err # NoErr /\ calls[c].after = "Open"
        /\ calls[d].first /\ calls[d].pc = "returned"
        /\ calls[d].op.err = NoErr /\ calls[d].after = "Closed"

\* C9: in a half-open period at most MaxRequests operations are admitted,
\* under every interleaving of the callers; a caller beyond the limit gets
\* ErrTooManyRequests and the zero value, and its operation is not invoked.
C9_TrialLimit ==
    /\ trialsAdmitted <= MaxRequests
    /\ Cardinality({c \in Callers : /\ calls[c].pc \in {"admitted", "running"}
                                    /\ calls[c].saw = "HalfOpen"
                                    /\ calls[c].generation = cb.generation})
          <= MaxRequests
    /\ \A c \in Callers :
         (calls[c].pc # "idle" /\ calls[c].saw = "HalfOpen"
            /\ calls[c].ret.err \in BreakerErrors) =>
              /\ calls[c].ret = ExecuteReject(ErrTooManyRequests)
              /\ calls[c].invoked = 0

C9_Witness ==
    \E c, d \in Callers :
        /\ calls[c].pc = "running" /\ calls[c].saw = "HalfOpen"
        /\ calls[d].pc = "returned" /\ calls[d].saw = "HalfOpen"
        /\ calls[d].generation = calls[c].generation
        /\ calls[d].ret.err = ErrTooManyRequests /\ calls[d].invoked = 0

\* C10: a call that invoked its operation returns that operation's value and
\* error unchanged; a rejected call returns the zero value and a breaker error
\* that no wrapped operation returns.
C10_Transparent ==
    \A c \in Callers : calls[c].pc = "returned" =>
        IF calls[c].invoked > 0
        THEN calls[c].ret = calls[c].op
        ELSE /\ calls[c].ret.val = Nil
             /\ calls[c].ret.err \in BreakerErrors
             /\ calls[c].ret.err \notin OpErrors \cup {NoErr}

C10_Witness ==
    \E c, d \in Callers :
        /\ calls[c].pc = "returned" /\ calls[c].invoked = 1
        /\ calls[c].ret.err \in OpErrors
        /\ calls[d].pc = "returned" /\ calls[d].invoked = 0
        /\ calls[d].ret.err = ErrOpenState


\* C33: while the breaker is Closed, an Execute call whose operation succeeded
\* leaves the consecutive-failure counter at zero; and as long as every run of
\* failures has been shorter than the trip threshold the breaker has never
\* opened, however many failures were counted in total.
C33_SuccessResetsRun ==
    /\ [][\A c \in Callers :
            (/\ calls[c].pc = "running"
             /\ calls'[c].pc = "returned"
             /\ calls[c].op.err = NoErr
             /\ cb.state = "StateClosed")
            => /\ cb'.state = "StateClosed"
               /\ cb'.counts.ConsecutiveFailures = 0]_vars
    /\ [](maxFailRun < settings.threshold =>
            /\ openedAt = 0
            /\ cb.state = "StateClosed"
            /\ cb.counts.ConsecutiveFailures = failRun)

C33_Witness ==
    /\ maxFailRun = 1
    /\ settings.threshold = 2
    /\ cb.counts.TotalFailures >= settings.threshold
    /\ cb.counts.TotalSuccesses >= 1
    /\ cb.counts.ConsecutiveFailures = 0
    /\ cb.state = "StateClosed"
    /\ openedAt = 0


\* C34: the repositories of a UnitOfWork write only through that UnitOfWork's
\* own transaction, while all of them share the factory's one breaker: each
\* transaction holds only rows of its own request; a request is rejected by
\* the breaker only after a failed call of another request, none of its own
\* calls having failed; and once the breaker is Open no request is inside a
\* call admitted since it opened.
C34_SharedBreakerOwnTx ==
    /\ \A r \in Requests :
         /\ tx[r].users \subseteq {req[r].user}
         /\ \A x \in tx[r].records : x.Id = req[r].key /\ x.ReferenceId = req[r].user.Id
    /\ \A r \in Requests : req[r].rejected =>
         /\ req[r].res.err = NoErr
         /\ \E r2 \in Requests \ {r} :
              /\ req[r2].pc \in {"abort", "done"}
              /\ ~req[r2].rejected
              /\ req[r2].res.err # NoErr
    /\ cb.state = "StateOpen" =>
         \A r \in Requests :
            (req[r].pc = "call" /\ req[r].stage # "enter") => req[r].gen < cb.generation

\* A request with a row in its own transaction is rejected at its next call,
\* the breaker having been opened by the failed call of another request whose
\* transaction holds nothing.
C34_Witness ==
    /\ cb.state = "StateOpen"
    /\ \E r1, r2 \in Requests :
        /\ r1 # r2
        /\ req[r1].pc = "abort" /\ req[r1].rejected /\ req[r1].res.err = NoErr
        /\ req[r1].ret.err = ErrOpenState
        /\ tx[r1].status = "open" /\ tx[r1].users = {req[r1].user}
        /\ ~req[r2].rejected /\ req[r2].res.err # NoErr
        /\ tx[r2].users = {} /\ tx[r2].records = {}


\* C36: the gate's hit is decided by the id alone. A lookup that did not fail
\* finds a record exactly when the store holds one with the request's id;
\* the call then returns that record's deserialized payload (or the error of
\* deserializing it) without invoking fn or Insert, whatever the request type
\* and reference id of the request and of the record.
C36_HitByIdAlone ==
    [][\A c \in Callers :
          (/\ icalls[c].pc = "get"
           /\ icalls'[c].pc # "get"
           /\ icalls'[c].getErr = NoErr) =>
             /\ icalls'[c].found <=> \E x \in irecords : x.Id = icalls[c].id
             /\ icalls'[c].found =>
                  \E x \in irecords :
                     /\ x.Id = icalls[c].id
                     /\ icalls'[c].pc = "returned"
                     /\ icalls'[c].fnCalls = 0
                     /\ icalls'[c].inserts = 0
                     /\ icalls'[c].ret =
                          IF UnmarshalErr(x.ResponseData) = NoErr
                          THEN [val |-> Unmarshal(x.ResponseData, ZeroUser), err |-> NoErr]
                          ELSE [val |-> ZeroUser, err |-> ErrSyntax]]_vars

\* A CreateUser request was answered, without fn, from the record that a
\* request of the other type and another reference id had inserted under the
\* same id.
C36_Witness ==
    \E c, d \in Callers :
        /\ c # d
        /\ icalls[d].pc = "returned" /\ icalls[d].inserts = 1
        /\ icalls[d].insertErr = NoErr
        /\ icalls[d].requestType = RequestTypeOther
        /\ icalls[d].inserted \in irecords
        /\ icalls[c].pc = "returned" /\ icalls[c].found
        /\ icalls[c].id = icalls[d].id
        /\ icalls[c].requestType = RequestTypeCreateUser
        /\ icalls[c].ref # icalls[d].ref
        /\ icalls[c].fnCalls = 0
        /\ icalls[c].ret = [val |-> ResultOf(d), err |-> NoErr]


\* C37: the breaker records one outcome per repository call, that of the whole
\* retry sequence. The breaker changes only when a call enters or leaves
\* Execute, never at an attempt, a backoff step or a wake-up; an admitted
\* entry adds one to the request count and nothing else; a leave adds at most
\* one to the failure counts and to the outcomes counted; and a call that was
\* admitted returns after at most 1 + maxRetries attempts, at least one unless
\* its context was cancelled.
C37_OneOutcomePerCall ==
    /\ [][/\ cb' # cb =>
               \E c \in Callers :
                  \/ rp[c].pc = "enter" /\ rp'[c].pc # "enter"
                  \/ rp[c].pc = "leave" /\ rp'[c].pc = "returned"
          /\ \A c \in Callers :
               (rp[c].pc = "enter" /\ rp'[c].pc = "attempt") =>
                   cb' = [cb EXCEPT !.counts.Requests = @ + 1]
          /\ \A c \in Callers :
               (rp[c].pc = "leave" /\ rp'[c].pc = "returned") =>
                   /\ cb'.counts.Requests <= cb.counts.Requests
                   /\ cb'.counts.ConsecutiveFailures <= cb.counts.ConsecutiveFailures + 1
                   /\ cb'.counts.TotalFailures <= cb.counts.TotalFailures + 1
                   /\ cb'.counts.TotalFailures + cb'.counts.TotalSuccesses
                        <= cb.counts.TotalFailures + cb.counts.TotalSuccesses + 1]_vars
    /\ [](\A c \in Callers :
            (rp[c].pc = "returned" /\ ~rp[c].rejected) =>
                /\ ~rp[c].ctxDone => rp[c].attempts >= 1
                /\ rp[c].attempts <= 1 + rcfg.maxRetries)

\* A call that made four attempts, all failed, has returned, and the breaker
\* counts one request and one failure.
C37_Witness ==
    /\ cb.state = "StateClosed"
    /\ cb.counts.Requests = 1
    /\ cb.counts.TotalFailures = 1
    /\ cb.counts.ConsecutiveFailures = 1
    /\ \E c \in Callers :
         /\ rp[c].pc = "returned" /\ ~rp[c].rejected /\ ~rp[c].ctxDone
         /\ rp[c].attempts = 1 + DbMaxRetries
         /\ rp[c].ret.err # NoErr


\* C38: a repository call that ends with an error is a failure for the breaker
\* whatever the error (a uniqueness violation, the cancellation of the
\* caller's context, a not-found error, retried or not), and a call that ends
\* with a nil error, an absent row included, is a success: when a call leaves
\* Execute in the generation that admitted it, an error adds one failure or
\* trips the breaker, and a nil error adds one success and clears the run of
\* failures; the caller gets the error the breaker saw.
C38_AnyErrorIsFailure ==
    [][\A c \in Callers :
          (/\ rp[c].pc = "leave"
           /\ rp'[c].pc = "returned"
           /\ rp[c].gen = cb.generation) =>
             /\ rp'[c].ret.err = rp[c].res.err
             /\ IF rp[c].res.err # NoErr
                THEN IF cb.counts.ConsecutiveFailures + 1 >= settings.threshold
                     THEN cb'.state = "StateOpen" /\ cb'.generation = cb.generation + 1
                     ELSE cb' = [cb EXCEPT !.counts.TotalFailures = @ + 1,
                                           !.counts.ConsecutiveFailures = @ + 1,
                                           !.counts.ConsecutiveSuccesses = 0]
                ELSE cb' = [cb EXCEPT !.counts.TotalSuccesses = @ + 1,
                                      !.counts.ConsecutiveSuccesses = @ + 1,
                                      !.counts.ConsecutiveFailures = 0]]_vars

\* With threshold 2 and the predicate of database.go, two calls were made: an
\* Insert that lost to the row already stored, after one attempt, and a call
\* whose context was cancelled; the breaker is Open.
C38_Witness ==
    /\ settings.threshold = 2
    /\ rcfg = DbRetryConfig
    /\ nrp = 2
    /\ cb.state = "StateOpen"
    /\ \E c, d \in Callers :
         /\ rp[c].pc = "returned" /\ rp[c].method = "Insert" /\ ~rp[c].ctxDone
         /\ rp[c].attempts = 1 /\ rp[c].ret.err = ErrUnique
         /\ rp[d].pc = "returned" /\ rp[d].ctxDone /\ ~rp[d].rejected
         /\ rp[d].ret.err = ErrCanceled

====
